---- MODULE Spec2Model ----
(***************************************************************************)
(* Model of the indicator core of AlinSafawi19/TradingStrategy             *)
(* (src/src/strategyLogic.ts): calculateMA, calculateRSI,                  *)
(* calculateSSLChannel, calculateTrendFusion and calculateTradingSignal.   *)
(*                                                                         *)
(* The functions are pure; the state machine is the caller that builds a   *)
(* number[] / PriceData[] argument and invokes them.                       *)
(*                                                                         *)
(* JavaScript numbers are IEEE-754 binary floating point.  They are        *)
(* modelled as binary floating point with round-to-nearest-even after      *)
(* every operation, with +Infinity, -Infinity and NaN, at a significand    *)
(* of MantBits bits instead of 53, which keeps every intermediate integer  *)
(* of an operation below 2^31.  The exponent is unbounded: none of the     *)
(* bounded inputs below comes near the overflow or underflow range of a    *)
(* double.  Signed zero is not modelled: no result of the modelled code    *)
(* depends on the sign of zero.                                            *)
(***************************************************************************)
EXTENDS Integers, Sequences, FiniteSets, TLC

(***************************************************************************)
(* Bounds of the model.                                                    *)
(***************************************************************************)
MantBits == 13      \* significand width of the modelled floating point
MaxLen == 5         \* longest number[] argument given to calculateMA / calculateRSI
MaxPeriod == 5      \* largest length argument of calculateMA / calculateRSI
MaxSslPeriod == 3   \* largest maPeriod option of calculateSSLChannel
MaxBars == 4        \* longest window given to calculateSSLChannel with small periods
MaxTail == 2        \* bars appended to a window of SignalMinBars - 1 bars

(***************************************************************************)
(* Floating point: a number is [k, m, e]; k = "fin" is the value m * 2^e   *)
(* with m = 0 /\ e = 0 or 2^(MantBits-1) <= |m| < 2^MantBits; k = "inf" is *)
(* m * Infinity (m = 1 or -1); k = "nan" is NaN.                           *)
(***************************************************************************)
Pow2Tab == [i \in 0..30 |-> 2^i]

Pow2(i) == Pow2Tab[i]

Fin(m, e) == [k |-> "fin", m |-> m, e |-> e]

Zero == Fin(0, 0)

NaN == [k |-> "nan", m |-> 0, e |-> 0]

PosInf == [k |-> "inf", m |-> 1, e |-> 0]

NegInf == [k |-> "inf", m |-> -1, e |-> 0]

IAbs(n) == IF n < 0 THEN -n ELSE n

ISign(n) == IF n < 0 THEN -1 ELSE IF n > 0 THEN 1 ELSE 0

RECURSIVE BitLenIn(_, _, _)
\* the least L in lo..hi with a < 2^L
BitLenIn(a, lo, hi) ==
  IF lo = hi THEN lo
  ELSE LET mid == (lo + hi) \div 2
       IN IF a < Pow2(mid) THEN BitLenIn(a, lo, mid) ELSE BitLenIn(a, mid + 1, hi)

BitLen(a) == BitLenIn(a, 1, 30)

\* the float nearest to the exact value n * 2^e (ties to even)
FRound(n, e) ==
  IF n = 0 THEN Zero
  ELSE LET a == IAbs(n)
           s == ISign(n)
           L == BitLen(a)
       IN IF L <= MantBits
          THEN Fin(n * Pow2(MantBits - L), e - (MantBits - L))
          ELSE LET sh == L - MantBits
                   q == a \div Pow2(sh)
                   r == a % Pow2(sh)
                   half == Pow2(sh - 1)
                   q1 == IF r > half \/ (r = half /\ q % 2 = 1) THEN q + 1 ELSE q
               IN IF q1 = Pow2(MantBits)
                  THEN Fin(s * Pow2(MantBits - 1), e + sh + 1)
                  ELSE Fin(s * q1, e + sh)

\* the number literal n
Num(n) == FRound(n, 0)

IsNaN(a) == a.k = "nan"

IsFinite(a) == a.k = "fin"

FNeg(a) == IF a.k = "nan" THEN a ELSE [a EXCEPT !.m = -a.m]

FAddFin(a, b) ==
  IF a.m = 0 THEN b
  ELSE IF b.m = 0 THEN a
  ELSE LET hi == IF a.e >= b.e THEN a ELSE b
           lo == IF a.e >= b.e THEN b ELSE a
           d == hi.e - lo.e
       IN IF d > MantBits + 1 THEN hi
          ELSE FRound(hi.m * Pow2(d) + lo.m, lo.e)

\* a + b
FAdd(a, b) ==
  IF a.k = "nan" \/ b.k = "nan" THEN NaN
  ELSE IF a.k = "inf" THEN (IF b.k = "inf" /\ b.m # a.m THEN NaN ELSE a)
  ELSE IF b.k = "inf" THEN b
  ELSE FAddFin(a, b)

\* a - b
FSub(a, b) == FAdd(a, FNeg(b))

\* a * b
FMul(a, b) ==
  IF a.k = "nan" \/ b.k = "nan" THEN NaN
  ELSE IF a.k = "inf" \/ b.k = "inf"
       THEN (IF a.m = 0 \/ b.m = 0 THEN NaN
             ELSE IF ISign(a.m) = ISign(b.m) THEN PosInf ELSE NegInf)
  ELSE FRound(a.m * b.m, a.e + b.e)

FDivFin(a, b) ==
  LET s == ISign(a.m) * ISign(b.m)
      n == IAbs(a.m) * Pow2(MantBits + 2)
      q == n \div IAbs(b.m)
      r == n % IAbs(b.m)
  IN FRound(s * (2 * q + (IF r # 0 THEN 1 ELSE 0)), a.e - b.e - (MantBits + 3))

\* a / b:  x/0 is +-Infinity, 0/0 and Infinity/Infinity are NaN
FDiv(a, b) ==
  IF a.k = "nan" \/ b.k = "nan" THEN NaN
  ELSE IF a.k = "inf"
       THEN (IF b.k = "inf" THEN NaN
             ELSE IF a.m * (IF b.m < 0 THEN -1 ELSE 1) > 0 THEN PosInf ELSE NegInf)
  ELSE IF b.k = "inf" THEN Zero
  ELSE IF b.m = 0
       THEN (IF a.m = 0 THEN NaN ELSE IF a.m > 0 THEN PosInf ELSE NegInf)
  ELSE IF a.m = 0 THEN Zero
  ELSE FDivFin(a, b)

\* Math.abs(a)
FAbs(a) == IF a.k = "nan" THEN a ELSE [a EXCEPT !.m = IAbs(a.m)]

\* a < b on finite numbers
FinLt(a, b) ==
  IF ISign(a.m) # ISign(b.m) THEN ISign(a.m) < ISign(b.m)
  ELSE IF a.m = 0 THEN FALSE
  ELSE IF a.e # b.e THEN (IF a.m > 0 THEN a.e < b.e ELSE a.e > b.e)
  ELSE a.m < b.m

\* a < b:  every comparison with NaN is false
FLt(a, b) ==
  IF a.k = "nan" \/ b.k = "nan" THEN FALSE
  ELSE IF a.k = "inf" THEN a.m < 0 /\ ~(b.k = "inf" /\ b.m < 0)
  ELSE IF b.k = "inf" THEN b.m > 0
  ELSE FinLt(a, b)

\* a > b
FGt(a, b) == FLt(b, a)

\* a === b on numbers
FEq(a, b) == a.k # "nan" /\ b.k # "nan" /\ a = b

\* a <= b
FLe(a, b) == FLt(a, b) \/ FEq(a, b)

\* a >= b
FGe(a, b) == FLe(b, a)

(***************************************************************************)
(* Array helpers with the meaning of Array.prototype.slice.                *)
(***************************************************************************)
IMax(a, b) == IF a >= b THEN a ELSE b

\* s.slice(-n) for n > 0: the last n elements (all of s when it is shorter)
SliceLast(s, n) == SubSeq(s, IMax(1, Len(s) - n + 1), Len(s))

\* mutation of SliceBeforeLast: s.slice(-n, -1), one element short
SliceBeforeLastShort(s, n) == SubSeq(s, IMax(1, Len(s) - n + 1), Len(s) - 1)

\* s.slice(-(n + 1), -1): up to n elements that precede the last one
SliceBeforeLast(s, n) == SubSeq(s, IMax(1, Len(s) - n), Len(s) - 1)

\* s.slice(0, -1)
DropLast(s) == SubSeq(s, 1, Len(s) - 1)

(***************************************************************************)
(* Loops.  A loop "for i = lo .. hi: acc = step(acc, i)" is evaluated as   *)
(* the loop over lo..mid followed by the loop over mid+1..hi: the same     *)
(* steps in the same order, at a recursion depth of log(hi - lo).          *)
(*                                                                         *)
(* A local constant "const x = v; e" is written                            *)
(*     CHOOSE r \in {e : x \in {v}} : TRUE                                  *)
(* which is e with x bound to the value of v, computed once.               *)
(***************************************************************************)
RECURSIVE SumRange(_, _, _, _)
\* reduce((sum, val) => sum + val, acc) over s[lo..hi], left to right
SumRange(s, lo, hi, acc) ==
  IF lo > hi THEN acc
  ELSE IF lo = hi THEN FAdd(acc, s[lo])
  ELSE LET mid == (lo + hi) \div 2
       IN CHOOSE r \in {SumRange(s, mid + 1, hi, left) :
                         left \in {SumRange(s, lo, mid, acc)}} : TRUE

\* ema = (source[i] * multiplier) + (ema * (1 - multiplier))
EmaStep(ema, x, multiplier) ==
  FAdd(FMul(x, multiplier), FMul(ema, FSub(Num(1), multiplier)))

RECURSIVE EmaRange(_, _, _, _, _)
\* the EMA loop over s[lo..hi] (1-based), starting from ema
EmaRange(s, lo, hi, multiplier, ema) ==
  IF lo > hi THEN ema
  ELSE IF lo = hi THEN EmaStep(ema, s[lo], multiplier)
  ELSE LET mid == (lo + hi) \div 2
       IN CHOOSE r \in {EmaRange(s, mid + 1, hi, multiplier, left) :
                         left \in {EmaRange(s, lo, mid, multiplier, ema)}} : TRUE

\* mutation of SMAOf: the slice is left out, source.reduce(...) / length
SMAOfAll(src, len) == FDiv(SumRange(src, 1, Len(src), Zero), Num(len))

\* source.slice(-length).reduce((sum, val) => sum + val, 0) / length
SMAOf(src, len) ==
  CHOOSE r \in {FDiv(SumRange(tail, 1, Len(tail), Zero), Num(len)) :
                tail \in {SliceLast(src, len)}} : TRUE

\* mutation of EMAOf: ema starts at 0 and the loop runs from index 0
EMAOfZeroSeed(src, len) ==
  EmaRange(src, 1, Len(src), FDiv(Num(2), Num(len + 1)), Zero)

\* mutation of EMAOf: the EMA of source.slice(-length) only
EMAOfWindow(src, len) ==
  EmaRange(src, IMax(1, Len(src) - len + 1) + 1, Len(src),
           FDiv(Num(2), Num(len + 1)), src[IMax(1, Len(src) - len + 1)])

\* multiplier = 2 / (length + 1); ema = source[0]; the loop from index 1
EMAOf(src, len) ==
  CHOOSE r \in {EmaRange(src, 2, Len(src), multiplier, src[1]) :
                multiplier \in {FDiv(Num(2), Num(len + 1))}} : TRUE

(***************************************************************************)
(* calculateMA(source, length, type)                                       *)
(***************************************************************************)
calculateMA(src, len, type) ==
  IF Len(src) < len THEN Zero
  ELSE IF type = "EMA" THEN EMAOf(src, len)
  ELSE SMAOf(src, len)

(***************************************************************************)
(* calculateRSI(prices, length).  acc is <<gains, losses>> in the first    *)
(* loop and <<avgGain, avgLoss>> in the second; i is the 0-based index of  *)
(* the code, prices[i] of the code is prices[i + 1] here.                  *)
(***************************************************************************)
RsiInitialStep(acc, prices, i) ==
  CHOOSE r \in {IF FGt(change, Zero)
                THEN <<FAdd(acc[1], change), acc[2]>>
                ELSE <<acc[1], FAdd(acc[2], FAbs(change))>> :
                change \in {FSub(prices[i + 1], prices[i])}} : TRUE

RECURSIVE RsiInitial(_, _, _, _)
\* for (let i = lo; i <= hi; i++) of the first loop
RsiInitial(prices, lo, hi, acc) ==
  IF lo > hi THEN acc
  ELSE IF lo = hi THEN RsiInitialStep(acc, prices, lo)
  ELSE LET mid == (lo + hi) \div 2
       IN CHOOSE r \in {RsiInitial(prices, mid + 1, hi, left) :
                         left \in {RsiInitial(prices, lo, mid, acc)}} : TRUE

\* mutation of RsiSmoothStep: the two branches of the smoothing loop exchanged
RsiSmoothStepSwapped(acc, prices, i, len) ==
  CHOOSE r \in {IF FGt(change, Zero)
                THEN <<FDiv(FMul(acc[1], l1), l),
                       FDiv(FAdd(FMul(acc[2], l1), FAbs(change)), l)>>
                ELSE <<FDiv(FAdd(FMul(acc[1], l1), change), l), FDiv(FMul(acc[2], l1), l)>> :
                change \in {FSub(prices[i + 1], prices[i])},
                l1 \in {Num(len - 1)},
                l \in {Num(len)}} : TRUE

RsiSmoothStep(acc, prices, i, len) ==
  CHOOSE r \in {IF FGt(change, Zero)
                THEN <<FDiv(FAdd(FMul(acc[1], l1), change), l), FDiv(FMul(acc[2], l1), l)>>
                ELSE <<FDiv(FMul(acc[1], l1), l),
                       FDiv(FAdd(FMul(acc[2], l1), FAbs(change)), l)>> :
                change \in {FSub(prices[i + 1], prices[i])},
                l1 \in {Num(len - 1)},
                l \in {Num(len)}} : TRUE

RECURSIVE RsiSmooth(_, _, _, _, _)
\* for (let i = lo; i <= hi; i++) of the second loop
RsiSmooth(prices, lo, hi, len, acc) ==
  IF lo > hi THEN acc
  ELSE IF lo = hi THEN RsiSmoothStep(acc, prices, lo, len)
  ELSE LET mid == (lo + hi) \div 2
       IN CHOOSE r \in {RsiSmooth(prices, mid + 1, hi, len, left) :
                         left \in {RsiSmooth(prices, lo, mid, len, acc)}} : TRUE

\* <<avgGain, avgLoss>> when the ratio rs is formed
RsiAverages(prices, len) ==
  CHOOSE r \in {RsiSmooth(prices, len + 1, Len(prices) - 1, len,
                          <<FDiv(gl[1], Num(len)), FDiv(gl[2], Num(len))>>) :
                gl \in {RsiInitial(prices, 1, len, <<Zero, Zero>>)}} : TRUE

\* rs = avgGain / avgLoss; 100 - (100 / (1 + rs))
RsiFromAverages(avg) ==
  CHOOSE r \in {FSub(Num(100), FDiv(Num(100), FAdd(Num(1), rs))) :
                rs \in {FDiv(avg[1], avg[2])}} : TRUE

calculateRSI(prices, len) ==
  IF Len(prices) < len + 1 THEN Num(50)
  ELSE CHOOSE r \in {RsiFromAverages(avg) : avg \in {RsiAverages(prices, len)}} : TRUE

(***************************************************************************)
(* Option objects.  A settings argument is a function from the names of    *)
(* the supplied options to their values; NoSettings is the argument left   *)
(* out.  "settings?.x || d" is d when x is not supplied or is falsy (0).   *)
(***************************************************************************)
NoSettings == << >>

OptNum(settings, key, default) ==
  IF key \in DOMAIN settings /\ settings[key] # 0 THEN settings[key] ELSE default

OptStr(settings, key, default) ==
  IF key \in DOMAIN settings /\ settings[key] # "" THEN settings[key] ELSE default

(***************************************************************************)
(* PriceData                                                               *)
(***************************************************************************)
Bar(o, h, l, c, t) == [open |-> o, high |-> h, low |-> l, close |-> c, timestamp |-> t]

Highs(data) == [i \in 1..Len(data) |-> data[i].high]

Lows(data) == [i \in 1..Len(data) |-> data[i].low]

Closes(data) == [i \in 1..Len(data) |-> data[i].close]

(***************************************************************************)
(* calculateSSLChannel(priceData, wicks, settings)                         *)
(***************************************************************************)
DefaultMaPeriod == 200

\* mutation of SslMaPeriod: a default period one bar longer than the gate
SslMaPeriodLonger(settings) == OptNum(settings, "maPeriod", DefaultMaPeriod + 1)

SslMaPeriod(settings) == OptNum(settings, "maPeriod", DefaultMaPeriod)

SslMaType(settings) == OptStr(settings, "maType", "SMA")

SslSentinel ==
  [sslUp |-> Zero, sslDown |-> Zero, hlv |-> 0, signal |-> "NEUTRAL",
   color |-> "#6B7280", buySignal |-> FALSE, sellSignal |-> FALSE]

\* ma1: the moving average of the highs of recentData
SslMa1(recentData, settings) ==
  calculateMA(Highs(recentData), SslMaPeriod(settings), SslMaType(settings))

\* mutation of SslMa2: the average of the lows over the last bar alone
SslMa2LastBar(recentData, settings) ==
  calculateMA(Lows(recentData), 1, SslMaType(settings))

\* ma2: the moving average of the lows of recentData
SslMa2(recentData, settings) ==
  calculateMA(Lows(recentData), SslMaPeriod(settings), SslMaType(settings))

\* priceToCompare / prevPrice of a bar
ComparePrice(bar, wicks) == IF wicks THEN bar.high ELSE bar.close

\* lowPriceToCompare / prevLowPrice of a bar
CompareLowPrice(bar, wicks) == IF wicks THEN bar.low ELSE bar.close

\* the Hlv decision on recentData
SslHlv(recentData, wicks, ma1, ma2) ==
  LET n == Len(recentData)
  IN IF FGt(ComparePrice(recentData[n], wicks), ma1) THEN 1
     ELSE IF FLt(CompareLowPrice(recentData[n], wicks), ma2) THEN -1
     ELSE IF n > 1
          THEN (IF FGt(ComparePrice(recentData[n - 1], wicks), ma1) THEN 1
                ELSE IF FLt(CompareLowPrice(recentData[n - 1], wicks), ma2) THEN -1
                ELSE 0)
          ELSE 0

\* mutation of SslResult: the lines are exchanged in state 0 as well
SslResultNonPositive(n, ma1, ma2, hlv, prevHlv) ==
  [sslUp |-> IF hlv <= 0 THEN ma2 ELSE ma1,
   sslDown |-> IF hlv <= 0 THEN ma1 ELSE ma2,
   hlv |-> hlv,
   signal |-> IF hlv = 1 THEN "BUY" ELSE IF hlv = -1 THEN "SELL" ELSE "NEUTRAL",
   color |-> IF hlv = 1 \/ hlv = -1 THEN "#EAB308" ELSE "#6B7280",
   buySignal |-> n > 1 /\ hlv = 1 /\ prevHlv = -1,
   sellSignal |-> n > 1 /\ ~(hlv = 1 /\ prevHlv = -1) /\ hlv = -1 /\ prevHlv = 1]

\* the returned object, from the locals of calculateSSLChannel
SslResult(n, ma1, ma2, hlv, prevHlv) ==
  [sslUp |-> IF hlv < 0 THEN ma2 ELSE ma1,
   sslDown |-> IF hlv < 0 THEN ma1 ELSE ma2,
   hlv |-> hlv,
   signal |-> IF hlv = 1 THEN "BUY" ELSE IF hlv = -1 THEN "SELL" ELSE "NEUTRAL",
   color |-> IF hlv = 1 \/ hlv = -1 THEN "#EAB308" ELSE "#6B7280",
   buySignal |-> n > 1 /\ hlv = 1 /\ prevHlv = -1,
   sellSignal |-> n > 1 /\ ~(hlv = 1 /\ prevHlv = -1) /\ hlv = -1 /\ prevHlv = 1]

RECURSIVE calculateSSLChannel(_, _, _)

\* calculateSSLChannel from "const recentData = ..." on
SslFromRecent(priceData, recentData, wicks, settings) ==
  CHOOSE r \in
    {SslResult(Len(recentData), ma1, ma2, SslHlv(recentData, wicks, ma1, ma2), prevHlv) :
       ma1 \in {SslMa1(recentData, settings)},
       ma2 \in {SslMa2(recentData, settings)},
       prevHlv \in {IF Len(recentData) > 1
                    THEN calculateSSLChannel(
                           SliceBeforeLast(priceData, SslMaPeriod(settings)),
                           wicks, settings).hlv
                    ELSE 0}} : TRUE

calculateSSLChannel(priceData, wicks, settings) ==
  IF Len(priceData) < SslMaPeriod(settings) THEN SslSentinel
  ELSE CHOOSE r \in {SslFromRecent(priceData, recentData, wicks, settings) :
                     recentData \in {SliceLast(priceData, SslMaPeriod(settings))}} : TRUE

(***************************************************************************)
(* calculateTrendFusion(priceData, settings)                               *)
(***************************************************************************)
DefaultShortEMAPeriod == 14

DefaultLongEMAPeriod == 50

DefaultRsiPeriod == 14

DefaultTopLevel == 60

DefaultBottomLevel == 40

\* mutation of TfSentinel: every number of the insufficient-data result is 0
TfSentinelZeros ==
  [trendDirection |-> "NEUTRAL", shortEMA |-> Zero, longEMA |-> Zero, momentum |-> Zero,
   rsiValue |-> Zero, rsiBias |-> "NEUTRAL", color |-> "#6B7280",
   rsiBiasLine |-> Zero, rsiBiasColor |-> "#6B7280"]

TfSentinel ==
  [trendDirection |-> "NEUTRAL", shortEMA |-> Zero, longEMA |-> Zero, momentum |-> Zero,
   rsiValue |-> Num(50), rsiBias |-> "NEUTRAL", color |-> "#6B7280",
   rsiBiasLine |-> Num(50), rsiBiasColor |-> "#6B7280"]

\* mutation of TfResult: the crossovers need prevRsi strictly inside the level
TfResultStrict(n, shortEMA, longEMA, momentum, rsiValue, prevRsi, topLevel, bottomLevel) ==
  LET crossUp == n > 1 /\ FLt(prevRsi, topLevel) /\ FGt(rsiValue, topLevel)
      crossDown == n > 1 /\ ~crossUp /\ FGt(prevRsi, bottomLevel)
                   /\ FLt(rsiValue, bottomLevel)
      trendDirection == IF FGt(shortEMA, longEMA) THEN "GREEN"
                        ELSE IF FLt(shortEMA, longEMA) THEN "RED"
                        ELSE "NEUTRAL"
  IN [trendDirection |-> trendDirection,
      shortEMA |-> shortEMA,
      longEMA |-> longEMA,
      momentum |-> momentum,
      rsiValue |-> rsiValue,
      rsiBias |-> IF crossUp THEN "BULLISH" ELSE IF crossDown THEN "BEARISH"
                  ELSE "NEUTRAL",
      color |-> IF trendDirection = "GREEN" THEN "#10B981"
                ELSE IF trendDirection = "RED"
                     THEN (IF FGt(momentum, Zero) THEN "#991B1B" ELSE "#EF4444")
                ELSE "#6B7280",
      rsiBiasLine |-> IF crossUp THEN bottomLevel ELSE IF crossDown THEN topLevel
                      ELSE Num(50),
      rsiBiasColor |-> IF crossUp \/ crossDown THEN "#EC4899" ELSE "#6B7280"]

\* the returned object, from the locals of calculateTrendFusion
TfResult(n, shortEMA, longEMA, momentum, rsiValue, prevRsi, topLevel, bottomLevel) ==
  LET crossUp == n > 1 /\ FLe(prevRsi, topLevel) /\ FGt(rsiValue, topLevel)
      crossDown == n > 1 /\ ~crossUp /\ FGe(prevRsi, bottomLevel)
                   /\ FLt(rsiValue, bottomLevel)
      trendDirection == IF FGt(shortEMA, longEMA) THEN "GREEN"
                        ELSE IF FLt(shortEMA, longEMA) THEN "RED"
                        ELSE "NEUTRAL"
  IN [trendDirection |-> trendDirection,
      shortEMA |-> shortEMA,
      longEMA |-> longEMA,
      momentum |-> momentum,
      rsiValue |-> rsiValue,
      rsiBias |-> IF crossUp THEN "BULLISH" ELSE IF crossDown THEN "BEARISH"
                  ELSE "NEUTRAL",
      color |-> IF trendDirection = "GREEN" THEN "#10B981"
                ELSE IF trendDirection = "RED"
                     THEN (IF FGt(momentum, Zero) THEN "#991B1B" ELSE "#EF4444")
                ELSE "#6B7280",
      rsiBiasLine |-> IF crossUp THEN bottomLevel ELSE IF crossDown THEN topLevel
                      ELSE Num(50),
      rsiBiasColor |-> IF crossUp \/ crossDown THEN "#EC4899" ELSE "#6B7280"]

\* mutation of TfFromCloses: the two averages are simple moving averages
TfFromClosesSMA(closePrices, shortPeriod, longPeriod, rsiLength, topLevel, bottomLevel) ==
  CHOOSE r \in
    {TfResult(Len(closePrices), shortEMA, longEMA, momentum, rsiValue, prevRsi,
              topLevel, bottomLevel) :
       shortEMA \in {calculateMA(closePrices, shortPeriod, "SMA")},
       longEMA \in {calculateMA(closePrices, longPeriod, "SMA")},
       momentum \in {FSub(calculateRSI(closePrices, rsiLength), Num(50))},
       rsiValue \in {calculateRSI(closePrices, rsiLength)},
       prevRsi \in {IF Len(closePrices) > 1
                    THEN calculateRSI(DropLast(closePrices), rsiLength)
                    ELSE Num(50)}} : TRUE

\* mutation of TfFromCloses: the two periods are exchanged
TfFromClosesExchanged(closePrices, shortPeriod, longPeriod, rsiLength, topLevel, bottomLevel) ==
  CHOOSE r \in
    {TfResult(Len(closePrices), shortEMA, longEMA, momentum, rsiValue, prevRsi,
              topLevel, bottomLevel) :
       shortEMA \in {calculateMA(closePrices, longPeriod, "EMA")},
       longEMA \in {calculateMA(closePrices, shortPeriod, "EMA")},
       momentum \in {FSub(calculateRSI(closePrices, rsiLength), Num(50))},
       rsiValue \in {calculateRSI(closePrices, rsiLength)},
       prevRsi \in {IF Len(closePrices) > 1
                    THEN calculateRSI(DropLast(closePrices), rsiLength)
                    ELSE Num(50)}} : TRUE

\* calculateTrendFusion from "const closePrices = ..." on
TfFromCloses(closePrices, shortPeriod, longPeriod, rsiLength, topLevel, bottomLevel) ==
  CHOOSE r \in
    {TfResult(Len(closePrices), shortEMA, longEMA, momentum, rsiValue, prevRsi,
              topLevel, bottomLevel) :
       shortEMA \in {calculateMA(closePrices, shortPeriod, "EMA")},
       longEMA \in {calculateMA(closePrices, longPeriod, "EMA")},
       momentum \in {FSub(calculateRSI(closePrices, rsiLength), Num(50))},
       rsiValue \in {calculateRSI(closePrices, rsiLength)},
       prevRsi \in {IF Len(closePrices) > 1
                    THEN calculateRSI(DropLast(closePrices), rsiLength)
                    ELSE Num(50)}} : TRUE

calculateTrendFusion(priceData, settings) ==
  CHOOSE r \in
    {IF Len(priceData) < IMax(shortPeriod, IMax(longPeriod, rsiLength)) THEN TfSentinel
     ELSE CHOOSE q \in {TfFromCloses(closePrices, shortPeriod, longPeriod, rsiLength,
                                     topLevel, bottomLevel) :
                        closePrices \in {Closes(priceData)}} : TRUE :
       shortPeriod \in {OptNum(settings, "shortEMAPeriod", DefaultShortEMAPeriod)},
       longPeriod \in {OptNum(settings, "longEMAPeriod", DefaultLongEMAPeriod)},
       rsiLength \in {OptNum(settings, "rsiPeriod", DefaultRsiPeriod)},
       topLevel \in {Num(OptNum(settings, "topLevel", DefaultTopLevel))},
       bottomLevel \in {Num(OptNum(settings, "bottomLevel", DefaultBottomLevel))}} : TRUE

(***************************************************************************)
(* calculateTradingSignal(priceData); now is the value of new Date()       *)
(***************************************************************************)
SignalMinBars == 200

\* mutation of SignalResult: one agreeing indicator is enough
SignalResultEither(priceData, sslChannel, trendFusion) ==
  [type |-> IF sslChannel.signal = "BUY" \/ trendFusion.trendDirection = "GREEN"
            THEN "BUY"
            ELSE IF sslChannel.signal = "SELL" \/ trendFusion.trendDirection = "RED"
                 THEN "SELL"
            ELSE "NEUTRAL",
   timestamp |-> priceData[Len(priceData)].timestamp,
   price |-> priceData[Len(priceData)].close]

\* mutation of SignalResult: timestamp and price of the first bar of the window
SignalResultFirstBar(priceData, sslChannel, trendFusion) ==
  [type |-> IF sslChannel.signal = "BUY" /\ trendFusion.trendDirection = "GREEN"
            THEN "BUY"
            ELSE IF sslChannel.signal = "SELL" /\ trendFusion.trendDirection = "RED"
                 THEN "SELL"
            ELSE "NEUTRAL",
   timestamp |-> priceData[1].timestamp,
   price |-> priceData[1].close]

\* the returned object of the path past the gate
SignalResult(priceData, sslChannel, trendFusion) ==
  [type |-> IF sslChannel.signal = "BUY" /\ trendFusion.trendDirection = "GREEN"
            THEN "BUY"
            ELSE IF sslChannel.signal = "SELL" /\ trendFusion.trendDirection = "RED"
                 THEN "SELL"
            ELSE "NEUTRAL",
   timestamp |-> priceData[Len(priceData)].timestamp,
   price |-> priceData[Len(priceData)].close]

\* mutation of GateResult: a short window is signalled from Trend Fusion alone
GateResultTrendOnly(priceData, now) ==
  [type |-> CHOOSE t \in {IF d = "GREEN" THEN "BUY"
                          ELSE IF d = "RED" THEN "SELL" ELSE "NEUTRAL" :
                          d \in {calculateTrendFusion(priceData, NoSettings).trendDirection}} :
                   TRUE,
   timestamp |-> now,
   price |-> IF Len(priceData) > 0 THEN priceData[Len(priceData)].close ELSE Zero]

\* the returned object of the gate (fewer than SignalMinBars bars)
GateResult(priceData, now) ==
  [type |-> "NEUTRAL",
   timestamp |-> now,
   price |-> IF Len(priceData) > 0 THEN priceData[Len(priceData)].close ELSE Zero]

calculateTradingSignal(priceData, now) ==
  IF Len(priceData) < SignalMinBars THEN GateResult(priceData, now)
  ELSE CHOOSE r \in {SignalResult(priceData, sslChannel, trendFusion) :
                     sslChannel \in {calculateSSLChannel(priceData, FALSE, NoSettings)},
                     trendFusion \in {calculateTrendFusion(priceData, NoSettings)}} : TRUE

(***************************************************************************)
(* The callers.  source/length/maType are the arguments of calculateMA and *)
(* calculateRSI, priceData/wicks/sslSettings those of the indicators;      *)
(* done names the results that were computed from the current arguments.   *)
(***************************************************************************)
VARIABLES source, length, maType, maResult, rsiResult,
          priceData, wicks, sslSettings, sslResult, sigResult, done,
          tfSettings, tfResult, log,
          cachedData, cachedRanges, timeRange, filteredData,
          workerData, fallbackData, loads,
          workerIndicators, fallbackIndicators,
          dataLoaded, isLoading, callers, loadLog,
          worker, tasks, taskId, timers, inbox, outbox, promises, fallbacks

vars == <<source, length, maType, maResult, rsiResult,
          priceData, wicks, sslSettings, sslResult, sigResult, done,
          tfSettings, tfResult, log,
          cachedData, cachedRanges, timeRange, filteredData,
          workerData, fallbackData, loads,
          workerIndicators, fallbackIndicators,
          dataLoaded, isLoading, callers, loadLog,
          worker, tasks, taskId, timers, inbox, outbox, promises, fallbacks>>

\* the WorkerManager: whether this.worker is set (not null), the keys of
\* this.tasks in insertion order, this.taskId, the ids whose setTimeout is
\* pending, the messages posted to the worker and not yet handled, the
\* responses posted by the worker and not yet delivered, the promise of
\* every task created, and the calls answered by fallbackProcessing
taskVars == <<worker, tasks, taskId, timers, inbox, outbox, promises, fallbacks>>

\* the data layer next to cachedData: whether cachedData is set (not null),
\* the loading flag, the callers of loadDefaultData and the record of their
\* fetches
loadVars == <<dataLoaded, isLoading, callers, loadLog>>

\* the answers to CALCULATE_INDICATORS of the worker and of the fallback
indicatorVars == <<workerIndicators, fallbackIndicators>>

\* the state of the worker manager
managerVars == <<indicatorVars, loadVars, taskVars>>

\* the loaded series, the per-token cache, the token asked for, the results
\* of the three window selectors and the number of loadTimeRangeData calls
rangeVars == <<cachedData, cachedRanges, timeRange, filteredData,
               workerData, fallbackData, loads>>

\* the record of the indicator calls made so far:
\* <<function, window before the call, result, window after the call>>
restVars == <<log, rangeVars, managerVars>>

\* the settings argument and the result of calculateTrendFusion
otherVars == <<tfSettings, tfResult, restVars>>

seriesVars == <<source, length, maType, maResult, rsiResult>>

windowVars == <<priceData, wicks, sslSettings, sslResult, sigResult, otherVars>>

Periods == 1..MaxPeriod

\* the prices a number[] argument is built from
SeriesValues == {Num(3), Num(4), Num(15)}

NoSignal == [type |-> "NEUTRAL", timestamp |-> 0, price |-> Zero]

InitSeriesVars ==
  /\ source = << >>
  /\ length = 1
  /\ maType = "SMA"
  /\ maResult = Zero
  /\ rsiResult = Zero

\* new Map(): no token has a cached result
EmptyRanges == [t \in {} |-> << >>]

InitRangeVars ==
  /\ cachedData = << >>
  /\ cachedRanges = EmptyRanges
  /\ timeRange = "All"
  /\ filteredData = << >>
  /\ workerData = << >>
  /\ fallbackData = << >>
  /\ loads = 0

NoIndicators == [sslSignal |-> "NEUTRAL", trendSignal |-> "NEUTRAL"]

InitIndicatorVars ==
  /\ workerIndicators = NoIndicators
  /\ fallbackIndicators = NoIndicators

MaxCallers == 3

Callers == 1..MaxCallers

IdleCaller == [pc |-> "idle", result |-> << >>, waited |-> FALSE]

EmptyLoadLog == [fetches |-> 0, requests |-> 0, failed |-> FALSE, asked |-> FALSE]

\* the series is in place: the selectors are used after the load
InitLoadVars ==
  /\ dataLoaded = TRUE
  /\ isLoading = FALSE
  /\ callers = [c \in Callers |-> IdleCaller]
  /\ loadLog = EmptyLoadLog

\* the manager after its constructor, nothing sent yet
InitTaskVars ==
  /\ worker = TRUE
  /\ tasks = << >>
  /\ taskId = 0
  /\ timers = {}
  /\ inbox = {}
  /\ outbox = {}
  /\ promises = << >>
  /\ fallbacks = {}

InitManagerVars == InitIndicatorVars /\ InitLoadVars /\ InitTaskVars

InitRestVars == log = {} /\ InitRangeVars /\ InitManagerVars

InitOtherVars ==
  /\ tfSettings = NoSettings
  /\ tfResult = TfSentinel
  /\ InitRestVars

InitWindowVars ==
  /\ priceData = << >>
  /\ wicks = FALSE
  /\ sslSettings = NoSettings
  /\ sslResult = SslSentinel
  /\ sigResult = NoSignal
  /\ InitOtherVars

(***************************************************************************)
(* calculateMA and calculateRSI on every number[] of up to MaxLen prices.  *)
(***************************************************************************)
InitSeries ==
  /\ source = << >>
  /\ length \in Periods
  /\ maType \in {"SMA", "EMA"}
  /\ maResult = Zero
  /\ rsiResult = Zero
  /\ InitWindowVars
  /\ done = {}

PushValue ==
  /\ Len(source) < MaxLen
  /\ \E v \in SeriesValues : source' = Append(source, v)
  /\ maResult' = Zero
  /\ rsiResult' = Zero
  /\ done' = {}
  /\ UNCHANGED <<length, maType, windowVars>>

CallMA ==
  /\ "ma" \notin done
  /\ maResult' = calculateMA(source, length, maType)
  /\ done' = done \cup {"ma"}
  /\ UNCHANGED <<source, length, maType, rsiResult, windowVars>>

CallRSI ==
  /\ "rsi" \notin done
  /\ rsiResult' = calculateRSI(source, length)
  /\ done' = done \cup {"rsi"}
  /\ UNCHANGED <<source, length, maType, maResult, windowVars>>

NextSeries == PushValue \/ CallMA \/ CallRSI

SpecSeries == InitSeries /\ [][NextSeries]_vars

(***************************************************************************)
(* calculateSSLChannel on every window of up to MaxBars well-formed bars   *)
(* (low <= close <= high), with and without wicks, SMA and EMA.            *)
(***************************************************************************)
\* <<low, close, high>> of the bars a small window is built from
BarShapes == {<<2, 2, 2>>, <<4, 4, 4>>, <<4, 7, 7>>, <<2, 4, 7>>}

\* the bars with timestamp t: low <= open = close <= high
SmallBars(t) == {Bar(Num(x[2]), Num(x[3]), Num(x[1]), Num(x[2]), t) : x \in BarShapes}

SmallSettings ==
  {[maPeriod |-> p, maType |-> t] : p \in 1..MaxSslPeriod, t \in {"SMA", "EMA"}}

InitSSL ==
  /\ InitSeriesVars
  /\ priceData = << >>
  /\ wicks \in BOOLEAN
  /\ sslSettings \in SmallSettings
  /\ sslResult = SslSentinel
  /\ sigResult = NoSignal
  /\ InitOtherVars
  /\ done = {}

AddBar ==
  /\ Len(priceData) < MaxBars
  /\ \E b \in SmallBars(Len(priceData) + 1) : priceData' = Append(priceData, b)
  /\ sslResult' = SslSentinel
  /\ done' = {}
  /\ UNCHANGED <<seriesVars, wicks, sslSettings, sigResult, otherVars>>

CallSSL ==
  /\ "ssl" \notin done
  /\ sslResult' = calculateSSLChannel(priceData, wicks, sslSettings)
  /\ done' = done \cup {"ssl"}
  /\ UNCHANGED <<seriesVars, priceData, wicks, sslSettings, sigResult, otherVars>>

NextSSL == AddBar \/ CallSSL

SpecSSL == InitSSL /\ [][NextSSL]_vars

(***************************************************************************)
(* calculateTradingSignal around the 200-bar gate: the empty window and    *)
(* rising, falling and flat windows of SignalMinBars - 1 bars, each        *)
(* extended by up to MaxTail bars.                                         *)
(***************************************************************************)
TrendBar(c, t) == Bar(Num(c), Num(c + 1), Num(c - 1), Num(c), t)

BaseLen == SignalMinBars - 1

RisingWindow == [i \in 1..BaseLen |-> TrendBar(100 + i, i)]

FallingWindow == [i \in 1..BaseLen |-> TrendBar(300 - i, i)]

FlatWindow == [i \in 1..BaseLen |-> TrendBar(200, i)]

TailCloses == {190, 200, 210}

Init ==
  /\ InitSeriesVars
  /\ priceData \in {<< >>, RisingWindow, FallingWindow, FlatWindow}
  /\ wicks = FALSE
  /\ sslSettings = NoSettings
  /\ sslResult = SslSentinel
  /\ sigResult = NoSignal
  /\ InitOtherVars
  /\ done = {}

AppendBar ==
  /\ \/ Len(priceData) < MaxTail
     \/ Len(priceData) >= BaseLen /\ Len(priceData) < BaseLen + MaxTail
  /\ \E c \in TailCloses : priceData' = Append(priceData, TrendBar(c, Len(priceData) + 1))
  /\ sigResult' = NoSignal
  /\ done' = {}
  /\ UNCHANGED <<seriesVars, wicks, sslSettings, sslResult, otherVars>>

\* the clock values new Date() may return
Now == {Len(priceData), Len(priceData) + 1}

CallSignal ==
  /\ "sig" \notin done
  /\ \E now \in Now : sigResult' = calculateTradingSignal(priceData, now)
  /\ done' = done \cup {"sig"}
  /\ UNCHANGED <<seriesVars, priceData, wicks, sslSettings, sslResult, otherVars>>

Next == AppendBar \/ CallSignal

Spec == Init /\ [][Next]_vars

(***************************************************************************)
(* Properties of calculateTradingSignal (under Spec).                      *)
(***************************************************************************)
\* the SSL Channel signal and the Trend Fusion direction of the window, as
\* calculateTradingSignal asks for them (no wicks, default settings)
WindowSsl == calculateSSLChannel(priceData, FALSE, NoSettings).signal

WindowDirection == calculateTrendFusion(priceData, NoSettings).trendDirection

\* C1: on a window of at least 200 bars the result is BUY exactly when the SSL
\* Channel signal is BUY and the Trend Fusion direction is GREEN, SELL exactly
\* when the signal is SELL and the direction is RED, and NEUTRAL in every
\* other combination.
C1_Confluence ==
  ("sig" \in done /\ Len(priceData) >= SignalMinBars) =>
    \A ssl \in {WindowSsl}, dir \in {WindowDirection} :
      /\ sigResult.type = "BUY" <=> (ssl = "BUY" /\ dir = "GREEN")
      /\ sigResult.type = "SELL" <=> (ssl = "SELL" /\ dir = "RED")
      /\ sigResult.type \in {"BUY", "SELL", "NEUTRAL"}

\* C1 happens: a window past the gate on which the indicators disagree
\* (SSL BUY with RED) and the result is NEUTRAL
C1_Disagreement ==
  /\ "sig" \in done
  /\ Len(priceData) >= SignalMinBars
  /\ sigResult.type = "NEUTRAL"
  /\ WindowSsl = "BUY"
  /\ WindowDirection = "RED"

\* C2: on a window of fewer than 200 bars the result is NEUTRAL, so a BUY or
\* SELL result needs at least 200 bars.
C2_Gate ==
  "sig" \in done =>
    /\ Len(priceData) < SignalMinBars => sigResult.type = "NEUTRAL"
    /\ sigResult.type \in {"BUY", "SELL"} => Len(priceData) >= SignalMinBars

\* C2 happens: a window of exactly 199 bars whose Trend Fusion direction is
\* GREEN, and the result is NEUTRAL
C2_Below ==
  /\ "sig" \in done
  /\ Len(priceData) = SignalMinBars - 1
  /\ sigResult.type = "NEUTRAL"
  /\ WindowDirection = "GREEN"

\* 200 bars are enough for a result other than NEUTRAL
C2_BuyAtMinimum ==
  /\ "sig" \in done
  /\ Len(priceData) = SignalMinBars
  /\ sigResult.type = "BUY"

(***************************************************************************)
(* Properties of calculateSSLChannel (under SpecSSL).                      *)
(***************************************************************************)
\* the moving averages of the highs and of the lows of the last maPeriod bars
WindowMa1 == SslMa1(SliceLast(priceData, SslMaPeriod(sslSettings)), sslSettings)

WindowMa2 == SslMa2(SliceLast(priceData, SslMaPeriod(sslSettings)), sslSettings)

\* the two comparisons on one bar: +1 if P > ma1, else -1 if Q < ma2, else 0
C3_Compare(bar, ma1, ma2) ==
  IF FGt(ComparePrice(bar, wicks), ma1) THEN 1
  ELSE IF FLt(CompareLowPrice(bar, wicks), ma2) THEN -1
  ELSE 0

\* the state C3 describes: the last bar decides, else the second-to-last bar
C3_State(ma1, ma2) ==
  LET n == Len(priceData)
  IN IF C3_Compare(priceData[n], ma1, ma2) # 0 THEN C3_Compare(priceData[n], ma1, ma2)
     ELSE IF n > 1 THEN C3_Compare(priceData[n - 1], ma1, ma2)
     ELSE 0

\* C3: on a window of at least maPeriod bars hlv is +1 if P > ma1, else -1 if
\* Q < ma2, else what the same comparisons give on the second-to-last bar of
\* the window, and 0 only if that bar satisfies neither.
C3_StateOrder ==
  ("ssl" \in done /\ Len(priceData) >= SslMaPeriod(sslSettings) /\ Len(priceData) >= 1) =>
    \A ma1 \in {WindowMa1}, ma2 \in {WindowMa2} : sslResult.hlv = C3_State(ma1, ma2)

\* C3 with maPeriod >= 2, where the second-to-last bar is part of recentData
C3_StateOrderFromTwo ==
  ("ssl" \in done /\ Len(priceData) >= SslMaPeriod(sslSettings)
     /\ SslMaPeriod(sslSettings) >= 2) =>
    \A ma1 \in {WindowMa1}, ma2 \in {WindowMa2} : sslResult.hlv = C3_State(ma1, ma2)

\* the state of the window with its last bar removed
PreviousState == calculateSSLChannel(DropLast(priceData), wicks, sslSettings).hlv

\* C4: buySignal is true exactly when the state is +1 and the state of the
\* window without its last bar is -1, sellSignal exactly when the state is -1
\* and that previous state is +1; and the result is that of the last
\* maPeriod + 1 bars alone.
C4_Events ==
  "ssl" \in done =>
    \A prev \in {PreviousState} :
      /\ sslResult.buySignal <=> (sslResult.hlv = 1 /\ prev = -1)
      /\ sslResult.sellSignal <=> (sslResult.hlv = -1 /\ prev = 1)
      /\ sslResult = calculateSSLChannel(
                       SliceLast(priceData, SslMaPeriod(sslSettings) + 1),
                       wicks, sslSettings)

\* C4 happens: a buy event on a window longer than maPeriod + 1 bars
C4_BuyEvent ==
  /\ "ssl" \in done
  /\ Len(priceData) > SslMaPeriod(sslSettings) + 1
  /\ sslResult.buySignal
  /\ PreviousState = -1

\* a sell event happens too
C4_SellEvent ==
  /\ "ssl" \in done
  /\ sslResult.sellSignal
  /\ PreviousState = 1

\* C5: on a window of at least maPeriod bars BUY is reported only with the
\* last bar's compared price above sslUp, SELL only with it below sslDown, and
\* NEUTRAL whenever the compared prices lie between the two lines.
C5_SignalSide ==
  ("ssl" \in done /\ Len(priceData) >= SslMaPeriod(sslSettings) /\ Len(priceData) >= 1) =>
    LET last == priceData[Len(priceData)]
        P == ComparePrice(last, wicks)
        Q == CompareLowPrice(last, wicks)
        up == sslResult.sslUp
        down == sslResult.sslDown
    IN /\ sslResult.signal = "BUY" => FGt(P, up)
       /\ sslResult.signal = "SELL" => FLt(Q, down)
       /\ ( /\ FLe(P, up) \/ FLe(P, down)
            /\ FGe(Q, up) \/ FGe(Q, down) ) => sslResult.signal = "NEUTRAL"

(***************************************************************************)
(* Properties of calculateRSI and calculateMA (under SpecSeries).          *)
(***************************************************************************)
\* C6: calculateRSI returns a number in the closed range [0, 100], equal
\* prices included.
C6_RsiRange ==
  "rsi" \in done => (FGe(rsiResult, Num(0)) /\ FLe(rsiResult, Num(100)))

\* what calculateRSI does return: NaN or a number in [0, 100]
C6_RsiRangeOrNaN ==
  "rsi" \in done =>
    (IsNaN(rsiResult) \/ (FGe(rsiResult, Num(0)) /\ FLe(rsiResult, Num(100))))

\* no price of source is below the price before it
NoDecrease == \A i \in 1..(Len(source) - 1) : ~FLt(source[i + 1], source[i])

\* C7: on at least length + 1 prices without a decrease (average loss 0) the
\* RSI is exactly 100.
C7_ZeroLoss ==
  ("rsi" \in done /\ Len(source) >= length + 1 /\ NoDecrease) => rsiResult = Num(100)

\* C7 with a positive average gain
C7_ZeroLossWithGain ==
  ("rsi" \in done /\ Len(source) >= length + 1) =>
    \A avg \in {RsiAverages(source, length)} :
      (avg[2] = Zero /\ FGt(avg[1], Zero)) => rsiResult = Num(100)

\* where C7 fails: average gain and average loss are both 0 and the RSI is NaN
C7_ZeroOverZero ==
  ("rsi" \in done /\ Len(source) >= length + 1) =>
    \A avg \in {RsiAverages(source, length)} :
      (avg[2] = Zero /\ avg[1] = Zero) => IsNaN(rsiResult)

\* every element of source is the first one
IsConstant == \A i \in 1..Len(source) : source[i] = source[1]

\* C8 as stated: the EMA of a constant sequence of at least 2 elements is its
\* value, whatever the period.
C8_ConstantExact ==
  ("ma" \in done /\ maType = "EMA" /\ Len(source) >= 2 /\ IsConstant) =>
    maResult = source[1]

\* |a - v| <= c * 2^(-MantBits) * |v| for finite a and v, in exact arithmetic
WithinUlps(a, v, c) ==
  /\ IsFinite(a) /\ IsFinite(v)
  /\ IF a.m = 0 \/ v.m = 0 THEN a = v
     ELSE /\ IAbs(a.e - v.e) <= 1
          /\ LET lo == IF a.e <= v.e THEN a.e ELSE v.e
                 d == IAbs(a.m * Pow2(a.e - lo) - v.m * Pow2(v.e - lo))
             IN /\ d < Pow2(16)
                /\ d * Pow2(MantBits) <= c * IAbs(v.m) * Pow2(v.e - lo)

\* C8, amended: the EMA of period p of a constant sequence of value v and of
\* at least 2 elements is 0 when the sequence has fewer than p elements, and
\* otherwise v up to a relative rounding error of 2 * (p + 1) units of
\* roundoff.
C8_ConstantWithinRounding ==
  ("ma" \in done /\ maType = "EMA" /\ Len(source) >= 2 /\ IsConstant) =>
    IF Len(source) < length THEN maResult = Zero
    ELSE WithinUlps(maResult, source[1], 2 * (length + 1))

\* C8 happens: a constant sequence of at least p elements whose EMA is not
\* exactly its value
C8_RoundedAway ==
  /\ "ma" \in done /\ maType = "EMA" /\ Len(source) >= 2 /\ IsConstant
  /\ Len(source) >= length
  /\ maResult # source[1]

\* a constant sequence of fewer than p elements, whose EMA is 0
C8_TooShort ==
  /\ "ma" \in done /\ maType = "EMA" /\ Len(source) >= 2 /\ IsConstant
  /\ Len(source) < length
  /\ maResult = Zero

RECURSIVE C9_Fold(_, _, _)
\* s[1] folded with ema = s[i] * k + ema * (1 - k) over s[2..n]
C9_Fold(s, n, k) ==
  IF n = 1 THEN s[1]
  ELSE FAdd(FMul(s[n], k), FMul(C9_Fold(s, n - 1, k), FSub(Num(1), k)))

\* k = 2 / (period + 1)
C9_K == FDiv(Num(2), Num(length + 1))

\* C9: on at least period elements the EMA is the fold that starts from the
\* first element of the whole sequence and runs over every later element.
C9_WholeSequenceFold ==
  ("ma" \in done /\ maType = "EMA" /\ Len(source) >= length) =>
    maResult = C9_Fold(source, Len(source), C9_K)

\* C9 happens: the EMA differs from that of the last period elements alone
C9_HistoryMatters ==
  /\ "ma" \in done /\ maType = "EMA" /\ Len(source) > length
  /\ maResult # C9_Fold(SliceLast(source, length), length, C9_K)

\* the integer a price of SeriesValues stands for
IntOf(x) == x.m \div Pow2(-x.e)

RECURSIVE C10_Sum(_, _, _)
\* s[lo] + ... + s[hi] in integers
C10_Sum(s, lo, hi) == IF lo > hi THEN 0 ELSE IntOf(s[lo]) + C10_Sum(s, lo + 1, hi)

\* C10: the SMA is 0 on fewer than p elements and otherwise the arithmetic
\* mean of exactly the last p elements.
C10_MeanOfLast ==
  ("ma" \in done /\ maType = "SMA") =>
    IF Len(source) < length THEN maResult = Zero
    ELSE maResult = FDiv(Num(C10_Sum(source, Len(source) - length + 1, Len(source))),
                         Num(length))

\* C10 happens: the SMA of a sequence longer than p differs from the mean of
\* the whole sequence
C10_EarlierIgnored ==
  /\ "ma" \in done /\ maType = "SMA" /\ Len(source) > length
  /\ maResult # FDiv(Num(C10_Sum(source, 1, Len(source))), Num(Len(source)))

\* the SMA of fewer than p elements is 0
C10_TooShort ==
  /\ "ma" \in done /\ maType = "SMA" /\ 0 < Len(source) /\ Len(source) < length
  /\ maResult = Zero

(***************************************************************************)
(* calculateRSI on price paths: a first price followed by up to            *)
(* MaxRampLen - 1 steps up, down or level (under SpecRamp).                *)
(***************************************************************************)
MaxRampLen == 5     \* longest price path
MaxRampPeriod == 3  \* largest length argument of calculateRSI on a path

\* the first price of a path and the steps from one price to the next
RampStart == 10

RampSteps == {-1, 0, 1, 2}

InitRamp ==
  /\ source = <<Num(RampStart)>>
  /\ length \in 1..MaxRampPeriod
  /\ maType = "SMA"
  /\ maResult = Zero
  /\ rsiResult = Zero
  /\ InitWindowVars
  /\ done = {}

PushStep ==
  /\ Len(source) < MaxRampLen
  /\ \E d \in RampSteps :
       source' = Append(source, Num(IntOf(source[Len(source)]) + d))
  /\ rsiResult' = Zero
  /\ done' = {}
  /\ UNCHANGED <<length, maType, maResult, windowVars>>

NextRamp == PushStep \/ CallRSI

SpecRamp == InitRamp /\ [][NextRamp]_vars

StrictlyIncreasing == \A i \in 1..(Len(source) - 1) : FLt(source[i], source[i + 1])

StrictlyDecreasing == \A i \in 1..(Len(source) - 1) : FGt(source[i], source[i + 1])

\* C11: on more than length + 1 prices the RSI of a strictly increasing
\* sequence is 100 and the RSI of a strictly decreasing sequence is 0.
C11_Monotone ==
  ("rsi" \in done /\ Len(source) > length + 1) =>
    /\ StrictlyIncreasing => rsiResult = Num(100)
    /\ StrictlyDecreasing => rsiResult = Num(0)

\* C11 happens: a strictly increasing path that runs through the smoothing
\* loop with length >= 2, RSI 100
C11_Rising ==
  /\ "rsi" \in done /\ length >= 2 /\ Len(source) > length + 1
  /\ StrictlyIncreasing
  /\ rsiResult = Num(100)

\* a strictly decreasing path, RSI 0
C11_Falling ==
  /\ "rsi" \in done /\ length >= 2 /\ Len(source) > length + 1
  /\ StrictlyDecreasing
  /\ rsiResult = Num(0)

(***************************************************************************)
(* calculateSSLChannel and calculateTrendFusion called on the same window  *)
(* with custom settings, as the indicator panel does (under SpecPanel):    *)
(* every window of up to MaxPanelBars bars.                                *)
(***************************************************************************)
MaxPanelBars == 4   \* longest window of the panel

\* the closes a panel window is built from
PanelCloses == {10, 11, 13}

\* <<shortEMAPeriod, longEMAPeriod, rsiPeriod>>
PanelPeriods ==
  {<<1, 1, 1>>, <<1, 2, 1>>, <<2, 3, 2>>, <<2, 1, 2>>, <<1, 3, 2>>, <<1, 2, 3>>}

\* <<topLevel, bottomLevel>>
PanelLevels == {<<0, 0>>, <<50, 40>>, <<60, 50>>}

\* settings objects with and without the two level options
PanelSettings ==
  {[shortEMAPeriod |-> p[1], longEMAPeriod |-> p[2], rsiPeriod |-> p[3],
    topLevel |-> l[1], bottomLevel |-> l[2]] : p \in PanelPeriods, l \in PanelLevels}
  \cup
  {[shortEMAPeriod |-> p[1], longEMAPeriod |-> p[2], rsiPeriod |-> p[3]] :
     p \in PanelPeriods}

PanelSslSettings == [maPeriod |-> 3, maType |-> "SMA"]

InitPanel ==
  /\ InitSeriesVars
  /\ priceData = << >>
  /\ wicks = FALSE
  /\ sslSettings = PanelSslSettings
  /\ sslResult = SslSentinel
  /\ sigResult = NoSignal
  /\ tfSettings \in PanelSettings
  /\ tfResult = TfSentinel
  /\ InitRestVars
  /\ done = {}

AddPanelBar ==
  /\ Len(priceData) < MaxPanelBars
  /\ \E c \in PanelCloses : priceData' = Append(priceData, TrendBar(c, Len(priceData) + 1))
  /\ sslResult' = SslSentinel
  /\ tfResult' = TfSentinel
  /\ done' = {}
  /\ UNCHANGED <<seriesVars, wicks, sslSettings, sigResult, tfSettings, restVars>>

CallTF ==
  /\ "tf" \notin done
  /\ tfResult' = calculateTrendFusion(priceData, tfSettings)
  /\ done' = done \cup {"tf"}
  /\ UNCHANGED <<seriesVars, priceData, wicks, sslSettings, sslResult, sigResult, tfSettings,
               restVars>>

NextPanel == AddPanelBar \/ CallSSL \/ CallTF

SpecPanel == InitPanel /\ [][NextPanel]_vars

(***************************************************************************)
(* Properties of calculateTrendFusion (under SpecPanel).                   *)
(***************************************************************************)
\* the window passes the insufficient-data check of calculateTrendFusion
PanelEnough ==
  Len(priceData) >= IMax(tfSettings.shortEMAPeriod,
                         IMax(tfSettings.longEMAPeriod, tfSettings.rsiPeriod))

\* the fold of C9 over all closes of the window, with period p
PanelEma(p) ==
  C9_Fold(Closes(priceData), Len(priceData), FDiv(Num(2), Num(p + 1)))

C12_NeutralDirection ==
  /\ "tf" \in done /\ PanelEnough
  /\ tfSettings.shortEMAPeriod # tfSettings.longEMAPeriod
  /\ tfResult.trendDirection = "NEUTRAL"

\* the levels calculateTrendFusion works with
PanelTop == Num(OptNum(tfSettings, "topLevel", DefaultTopLevel))

PanelBottom == Num(OptNum(tfSettings, "bottomLevel", DefaultBottomLevel))

\* the RSI of the closes without the last one
PanelPrevRsi == calculateRSI(DropLast(Closes(priceData)), tfSettings.rsiPeriod)

\* C13: on a window that passes the insufficient-data check rsiBias is
\* BULLISH with reference level bottomLevel exactly when prevRsi <= topLevel
\* and rsiValue > topLevel; otherwise BEARISH with reference level topLevel
\* exactly when prevRsi >= bottomLevel and rsiValue < bottomLevel; otherwise
\* NEUTRAL with reference level 50.
C13_Bias ==
  ("tf" \in done /\ PanelEnough) =>
    \A prevRsi \in {PanelPrevRsi}, top \in {PanelTop}, bottom \in {PanelBottom} :
      LET up == FLe(prevRsi, top) /\ FGt(tfResult.rsiValue, top)
          down == FGe(prevRsi, bottom) /\ FLt(tfResult.rsiValue, bottom)
      IN /\ tfResult.rsiBias = "BULLISH" <=> up
         /\ tfResult.rsiBias = "BEARISH" <=> (~up /\ down)
         /\ tfResult.rsiBias = "NEUTRAL" <=> (~up /\ ~down)
         /\ tfResult.rsiBias = "BULLISH" => tfResult.rsiBiasLine = bottom
         /\ tfResult.rsiBias = "BEARISH" => tfResult.rsiBiasLine = top
         /\ tfResult.rsiBias = "NEUTRAL" => tfResult.rsiBiasLine = Num(50)

\* C13 happens: a crossover from prevRsi equal to topLevel
C13_CrossUpFromLevel ==
  /\ "tf" \in done /\ PanelEnough
  /\ tfResult.rsiBias = "BULLISH"
  /\ PanelPrevRsi = PanelTop

\* a crossunder happens too
C13_CrossDown ==
  /\ "tf" \in done /\ PanelEnough
  /\ tfResult.rsiBias = "BEARISH"
  /\ tfResult.rsiBiasLine = PanelTop

\* an option of tfSettings as supplied, d when it is not supplied
PanelGiven(key, d) == IF key \in DOMAIN tfSettings THEN tfSettings[key] ELSE d

\* the result with every supplied option value used as given
C14_AsGiven ==
  IF ~PanelEnough THEN TfSentinel
  ELSE TfFromCloses(Closes(priceData), tfSettings.shortEMAPeriod,
                    tfSettings.longEMAPeriod, tfSettings.rsiPeriod,
                    Num(PanelGiven("topLevel", DefaultTopLevel)),
                    Num(PanelGiven("bottomLevel", DefaultBottomLevel)))

\* C14: calculateTrendFusion uses every supplied option value as given, 0
\* included for topLevel and bottomLevel, and the defaults only for options
\* that were not supplied.
C14_OptionsAsGiven == "tf" \in done => tfResult = C14_AsGiven

\* C14 for settings whose supplied levels are not 0
C14_OptionsAsGivenNonZero ==
  ("tf" \in done /\ PanelGiven("topLevel", 1) # 0 /\ PanelGiven("bottomLevel", 1) # 0) =>
    tfResult = C14_AsGiven

\* C15: on insufficient data the indicators return their sentinel results:
\* calculateSSLChannel on fewer than maPeriod bars, calculateTrendFusion on
\* fewer than max(shortPeriod, longPeriod, rsiLength) bars, and calculateRSI
\* (the rsiValue of a window that passes that check) on fewer than
\* length + 1 prices.
C15_Sentinels ==
  /\ ("ssl" \in done /\ Len(priceData) < sslSettings.maPeriod) =>
       /\ sslResult.sslUp = Num(0) /\ sslResult.sslDown = Num(0)
       /\ sslResult.hlv = 0 /\ sslResult.signal = "NEUTRAL"
       /\ ~sslResult.buySignal /\ ~sslResult.sellSignal
  /\ ("tf" \in done /\ ~PanelEnough) =>
       /\ tfResult.trendDirection = "NEUTRAL"
       /\ tfResult.shortEMA = Num(0) /\ tfResult.longEMA = Num(0)
       /\ tfResult.momentum = Num(0) /\ tfResult.rsiValue = Num(50)
       /\ tfResult.rsiBias = "NEUTRAL" /\ tfResult.rsiBiasLine = Num(50)
  /\ ("tf" \in done /\ PanelEnough /\ Len(priceData) < tfSettings.rsiPeriod + 1) =>
       tfResult.rsiValue = Num(50)

\* C15 happens: both indicators called on a non-empty window too short for
\* either
C15_BothShort ==
  /\ "ssl" \in done /\ "tf" \in done
  /\ 0 < Len(priceData) /\ Len(priceData) < sslSettings.maPeriod /\ ~PanelEnough
  /\ tfResult.rsiValue = Num(50)
  /\ sslResult.signal = "NEUTRAL"

\* calculateRSI on exactly length prices, inside calculateTrendFusion
C15_RsiShort ==
  /\ "tf" \in done /\ PanelEnough /\ Len(priceData) = tfSettings.rsiPeriod
  /\ tfResult.rsiValue = Num(50)
  /\ tfResult.shortEMA # Zero

(***************************************************************************)
(* More properties of calculateTradingSignal (under Spec).                 *)
(***************************************************************************)
\* C16: for a non-empty window the price of the signal is the close of the
\* last bar, on both sides of the gate; from 200 bars on its timestamp is
\* the timestamp of the last bar; for the empty window the result is NEUTRAL
\* with price 0.
C16_PriceAndTimestamp ==
  "sig" \in done =>
    /\ Len(priceData) > 0 => sigResult.price = priceData[Len(priceData)].close
    /\ Len(priceData) >= SignalMinBars =>
         sigResult.timestamp = priceData[Len(priceData)].timestamp
    /\ Len(priceData) = 0 => (sigResult.type = "NEUTRAL" /\ sigResult.price = Num(0))

\* C16 happens: a signal past the gate whose last close differs from the
\* first close of the window
C16_PastGate ==
  /\ "sig" \in done
  /\ Len(priceData) >= SignalMinBars
  /\ sigResult.type = "SELL"
  /\ sigResult.price = priceData[Len(priceData)].close
  /\ sigResult.price # priceData[1].close

\* the call on the empty window
C16_Empty ==
  /\ "sig" \in done
  /\ Len(priceData) = 0
  /\ sigResult.price = Num(0)

\* below the gate the timestamp is the clock's, not the last bar's
C16_ClockBelowGate ==
  /\ "sig" \in done
  /\ 0 < Len(priceData) /\ Len(priceData) < SignalMinBars
  /\ sigResult.price = priceData[Len(priceData)].close
  /\ sigResult.timestamp # priceData[Len(priceData)].timestamp

(***************************************************************************)
(* Repeated calls (under SpecRepeat): a caller that moves between a few    *)
(* windows, overlapping and different, and calls the two indicators on the *)
(* window it holds, in any order and any number of times.  The functions   *)
(* of strategyLogic.ts keep no state between calls (the module declares no *)
(* variable outside its functions) and read their argument through slice   *)
(* and map, which copy.                                                    *)
(***************************************************************************)
\* the closes of the windows the caller moves between
RepeatCloses == {<<10, 11, 14>>, <<10, 11>>, <<11, 11, 11>>, <<14, 11, 8>>}

RepeatWindows == {[i \in 1..Len(cs) |-> TrendBar(cs[i], i)] : cs \in RepeatCloses}

RepeatSslSettings == [maPeriod |-> 2, maType |-> "SMA"]

RepeatTfSettings ==
  [shortEMAPeriod |-> 1, longEMAPeriod |-> 2, rsiPeriod |-> 1, topLevel |-> 60,
   bottomLevel |-> 40]

\* the window argument after a call of calculateSSLChannel: it is only read
SslWindowAfter(window) == window

\* the window argument after a call of calculateTrendFusion: it is only read
TfWindowAfter(window) == window

InitRepeat ==
  /\ InitSeriesVars
  /\ priceData = << >>
  /\ wicks = FALSE
  /\ sslSettings = RepeatSslSettings
  /\ sslResult = SslSentinel
  /\ sigResult = NoSignal
  /\ tfSettings = RepeatTfSettings
  /\ tfResult = TfSentinel
  /\ log = {}
  /\ InitRangeVars
  /\ InitManagerVars
  /\ done = {}

SelectWindow ==
  /\ \E w \in RepeatWindows : priceData' = w
  /\ UNCHANGED <<seriesVars, wicks, sslSettings, sslResult, sigResult, tfSettings,
                 tfResult, log, rangeVars, managerVars, done>>

\* mutation of RepeatSSL: the state of the previous call is kept and stands in
\* when the window decides nothing
RepeatSSLStored ==
  /\ sslResult' = [calculateSSLChannel(priceData, wicks, sslSettings)
                     EXCEPT !.hlv = IF @ = 0 THEN sslResult.hlv ELSE @]
  /\ priceData' = SslWindowAfter(priceData)
  /\ log' = log \cup {<<"ssl", priceData, sslResult', priceData'>>}
  /\ UNCHANGED <<seriesVars, wicks, sslSettings, sigResult, tfSettings, tfResult,
                 rangeVars, managerVars, done>>

RepeatSSL ==
  /\ sslResult' = calculateSSLChannel(priceData, wicks, sslSettings)
  /\ priceData' = SslWindowAfter(priceData)
  /\ log' = log \cup {<<"ssl", priceData, sslResult', priceData'>>}
  /\ UNCHANGED <<seriesVars, wicks, sslSettings, sigResult, tfSettings, tfResult,
                 rangeVars, managerVars, done>>

RepeatTF ==
  /\ tfResult' = calculateTrendFusion(priceData, tfSettings)
  /\ priceData' = TfWindowAfter(priceData)
  /\ log' = log \cup {<<"tf", priceData, tfResult', priceData'>>}
  /\ UNCHANGED <<seriesVars, wicks, sslSettings, sslResult, sigResult, tfSettings,
                 rangeVars, managerVars, done>>

NextRepeat == SelectWindow \/ RepeatSSL \/ RepeatTF

SpecRepeat == InitRepeat /\ [][NextRepeat]_vars

C18_ChannelLines ==
  ("ssl" \in done /\ Len(priceData) >= SslMaPeriod(sslSettings)) =>
    \A ma1 \in {WindowMa1}, ma2 \in {WindowMa2} :
      IF sslResult.hlv = -1
      THEN sslResult.sslUp = ma2 /\ sslResult.sslDown = ma1
      ELSE sslResult.sslUp = ma1 /\ sslResult.sslDown = ma2

\* C18 happens: state -1 with different averages, the lines exchanged
C18_Exchanged ==
  /\ "ssl" \in done /\ Len(priceData) >= SslMaPeriod(sslSettings)
  /\ sslResult.hlv = -1
  /\ WindowMa1 # WindowMa2
  /\ sslResult.sslUp = WindowMa2

\* state 0 with different averages, the lines not exchanged
C18_NeutralLines ==
  /\ "ssl" \in done /\ Len(priceData) >= SslMaPeriod(sslSettings)
  /\ sslResult.hlv = 0
  /\ WindowMa1 # WindowMa2
  /\ sslResult.sslUp = WindowMa1

(***************************************************************************)
(* Window selection by range token (App.tsx loadTimeRangeData, the worker's *)
(* processTimeRangeData, WorkerManager's filterDataByTimeRange).            *)
(*                                                                         *)
(* A Date is modelled by its time value, a whole number of hours counted   *)
(* from 2000-01-01T00:00Z: every duration of the code is a whole number of *)
(* hours, and the code only subtracts durations from time values and       *)
(* compares time values.                                                   *)
(***************************************************************************)
MaxSeries == 4
MaxLoads == 2

Hour == 1
Day == 24 * Hour
EpochYear == 2000
LastYear == 2030

\* hours of the UTC calendar year y (Gregorian rule for 2000..2099)
UtcYearHours(y) == IF y % 4 = 0 THEN 366 * Day ELSE 365 * Day

\* Date.UTC(y, 0, 1)
RECURSIVE DateUTC(_)
DateUTC(y) == IF y = EpochYear THEN 0 ELSE DateUTC(y - 1) + UtcYearHours(y - 1)

\* date.getUTCFullYear()
getUTCFullYear(t) ==
  CHOOSE y \in EpochYear..LastYear : DateUTC(y) <= t /\ t < DateUTC(y + 1)

\* mutation of FindStartLoop: the bar at the target date goes to the left half
RECURSIVE FindStartLoopStrict(_, _, _, _)
FindStartLoopStrict(data, targetDate, left, right) ==
  IF left <= right
  THEN LET mid == (left + right) \div 2
           midDate == data[mid + 1].timestamp
       IN  IF midDate > targetDate
           THEN FindStartLoopStrict(data, targetDate, left, mid - 1)
           ELSE FindStartLoopStrict(data, targetDate, mid + 1, right)
  ELSE left

\* the while loop of findStartIndex; left and right are the 0-based indices
\* of the code
RECURSIVE FindStartLoop(_, _, _, _)
FindStartLoop(data, targetDate, left, right) ==
  IF left <= right
  THEN LET mid == (left + right) \div 2
           midDate == data[mid + 1].timestamp
       IN  IF midDate >= targetDate
           THEN FindStartLoop(data, targetDate, left, mid - 1)
           ELSE FindStartLoop(data, targetDate, mid + 1, right)
  ELSE left

findStartIndex(data, targetDate) ==
  FindStartLoop(data, targetDate, 0, Len(data) - 1)

\* data.slice(startIndex), startIndex 0-based
SliceFrom(data, startIndex) == SubSeq(data, startIndex + 1, Len(data))

\* data.filter(item => item.timestamp >= targetDate)
FilterFrom(data, targetDate) ==
  SelectSeq(data, LAMBDA item : item.timestamp >= targetDate)

\* the switch of loadTimeRangeData: the target date of a token, "All" apart
LoadTargetDate(token, dataEnd) ==
  CASE token = "1H"  -> dataEnd - Hour
    [] token = "1D"  -> dataEnd - Day
    [] token = "5D"  -> dataEnd - 5 * Day
    [] token = "1M"  -> dataEnd - 30 * Day
    [] token = "3M"  -> dataEnd - 90 * Day
    [] token = "6M"  -> dataEnd - 180 * Day
    [] token = "YTD" -> DateUTC(getUTCFullYear(dataEnd))
    [] token = "1Y"  -> dataEnd - 365 * Day
    [] token = "5Y"  -> dataEnd - 5 * 365 * Day
    [] token = "10Y" -> dataEnd - 10 * 365 * Day
    [] OTHER         -> dataEnd - Day

\* the switch of processTimeRangeData and of filterDataByTimeRange: the same
\* cases without "10Y"
WorkerTargetDate(token, dataEnd) ==
  CASE token = "1H"  -> dataEnd - Hour
    [] token = "1D"  -> dataEnd - Day
    [] token = "5D"  -> dataEnd - 5 * Day
    [] token = "1M"  -> dataEnd - 30 * Day
    [] token = "3M"  -> dataEnd - 90 * Day
    [] token = "6M"  -> dataEnd - 180 * Day
    [] token = "YTD" -> DateUTC(getUTCFullYear(dataEnd))
    [] token = "1Y"  -> dataEnd - 365 * Day
    [] token = "5Y"  -> dataEnd - 5 * 365 * Day
    [] OTHER         -> dataEnd - Day

\* loadTimeRangeData once the full series is loaded: the result and the cache
\* after the call
loadTimeRangeData(data, ranges, token) ==
  IF token \in DOMAIN ranges
  THEN [result |-> ranges[token], ranges |-> ranges]
  ELSE IF Len(data) = 0
  THEN [result |-> << >>, ranges |-> ranges]
  ELSE LET dataEnd == data[Len(data)].timestamp
           selected ==
             IF token = "All"
             THEN data
             ELSE SliceFrom(data, findStartIndex(data, LoadTargetDate(token, dataEnd)))
       IN  [result |-> selected,
            ranges |-> [t \in DOMAIN ranges \cup {token} |->
                          IF t = token THEN selected ELSE ranges[t]]]

processTimeRangeData(data, token) ==
  IF Len(data) = 0
  THEN << >>
  ELSE LET dataEnd == data[Len(data)].timestamp
       IN  IF token = "All"
           THEN data
           ELSE SliceFrom(data, findStartIndex(data, WorkerTargetDate(token, dataEnd)))

filterDataByTimeRange(data, token) ==
  IF Len(data) = 0
  THEN << >>
  ELSE LET dataEnd == data[Len(data)].timestamp
       IN  IF token = "All"
           THEN data
           ELSE FilterFrom(data, WorkerTargetDate(token, dataEnd))

\* the enumerated range tokens
RangeTokens == {"1H", "1D", "5D", "1M", "3M", "6M", "YTD", "1Y", "5Y", "10Y", "All"}

\* the time values of the bars: 2024-01-01T02:00Z and the hours 1 hour, 2 hours
\* (the start of the year), 1 day, 365 days and 3650 days before it
RangeAnchor == DateUTC(2024) + 2 * Hour
RangeOffsets == {0, Hour, 2 * Hour, Day, 365 * Day, 10 * 365 * Day}
RangeStamps == {RangeAnchor - d : d \in RangeOffsets}

\* a bar of the series; its prices tell bars of one time value apart
RangeBar(t, i) == Bar(Num(i), Num(i), Num(i), Num(i), t)

\* the series sorted by non-decreasing timestamp, of at most MaxSeries bars
SortedSeries ==
  LET stamps == UNION {[1..n -> RangeStamps] : n \in 0..MaxSeries}
      sorted == {s \in stamps : \A i \in 1..(Len(s) - 1) : s[i] <= s[i + 1]}
  IN  {[i \in 1..Len(s) |-> RangeBar(s[i], i)] : s \in sorted}

InitRange ==
  /\ InitSeriesVars
  /\ priceData = << >>
  /\ wicks = FALSE
  /\ sslSettings = NoSettings
  /\ sslResult = SslSentinel
  /\ sigResult = NoSignal
  /\ tfSettings = NoSettings
  /\ tfResult = TfSentinel
  /\ log = {}
  /\ cachedData \in SortedSeries
  /\ cachedRanges = EmptyRanges
  /\ timeRange \in RangeTokens
  /\ filteredData = << >>
  /\ workerData = << >>
  /\ fallbackData = << >>
  /\ loads = 0
  /\ InitManagerVars
  /\ done = {}

\* a call of loadTimeRangeData(timeRange)
LoadRange ==
  /\ loads < MaxLoads
  /\ LET r == loadTimeRangeData(cachedData, cachedRanges, timeRange)
     IN  /\ filteredData' = r.result
         /\ cachedRanges' = r.ranges
  /\ loads' = loads + 1
  /\ done' = done \cup {"load"}
  /\ UNCHANGED <<seriesVars, priceData, wicks, sslSettings, sslResult, sigResult,
                 tfSettings, tfResult, log, cachedData, timeRange, workerData,
                 fallbackData, managerVars>>

\* the worker's answer to PROCESS_DATA for the same series and token
ProcessRange ==
  /\ "worker" \notin done
  /\ workerData' = processTimeRangeData(cachedData, timeRange)
  /\ done' = done \cup {"worker"}
  /\ UNCHANGED <<seriesVars, priceData, wicks, sslSettings, sslResult, sigResult,
                 tfSettings, tfResult, log, cachedData, cachedRanges, timeRange,
                 filteredData, fallbackData, loads, managerVars>>

\* WorkerManager's main-thread fallback for the same series and token
FallbackRange ==
  /\ "fallback" \notin done
  /\ fallbackData' = filterDataByTimeRange(cachedData, timeRange)
  /\ done' = done \cup {"fallback"}
  /\ UNCHANGED <<seriesVars, priceData, wicks, sslSettings, sslResult, sigResult,
                 tfSettings, tfResult, log, cachedData, cachedRanges, timeRange,
                 filteredData, workerData, loads, managerVars>>

\* clearCaches()
ClearCaches ==
  /\ cachedRanges # EmptyRanges
  /\ cachedRanges' = EmptyRanges
  /\ UNCHANGED <<seriesVars, priceData, wicks, sslSettings, sslResult, sigResult,
                 tfSettings, tfResult, log, cachedData, timeRange, filteredData,
                 workerData, fallbackData, loads, managerVars, done>>

NextRange == LoadRange \/ ProcessRange \/ FallbackRange \/ ClearCaches

SpecRange == InitRange /\ [][NextRange]_vars

\* the duration of a token in hours, as the range set names it
TokenDuration(token) ==
  CASE token = "1H"  -> 1
    [] token = "1D"  -> 24
    [] token = "5D"  -> 120
    [] token = "1M"  -> 720
    [] token = "3M"  -> 2160
    [] token = "6M"  -> 4320
    [] token = "1Y"  -> 8760
    [] token = "5Y"  -> 43800
    [] token = "10Y" -> 87600

\* the cutoff of a token on a non-empty series: the latest timestamp minus
\* the token's duration; for year-to-date, 1 January UTC of the latest year
TokenCutoff(data, token) ==
  LET latest == data[Len(data)].timestamp
  IN  IF token = "YTD"
      THEN CHOOSE t \in {DateUTC(y) : y \in EpochYear..LastYear} :
             t <= latest /\ \A y \in EpochYear..LastYear :
                              DateUTC(y) <= latest => DateUTC(y) <= t
      ELSE latest - TokenDuration(token)

\* what a selector must return for a series and a token: the full series
\* for All, else the contiguous suffix that starts at the lowest index whose
\* timestamp is at or after the cutoff and that holds the latest bar
IsWindowOf(result, data, token) ==
  IF token = "All" \/ Len(data) = 0
  THEN result = data
  ELSE LET n == Len(data)
           k == n - Len(result)
           cutoff == TokenCutoff(data, token)
       IN  /\ Len(result) >= 1
           /\ result = SubSeq(data, k + 1, n)
           /\ result[Len(result)] = data[n]
           /\ \A i \in (k + 1)..n : data[i].timestamp >= cutoff
           /\ \A i \in 1..k : data[i].timestamp < cutoff

\* C19: on every sorted series and for every range token, loadTimeRangeData
\* returns exactly the bars at or after the cutoff: a contiguous suffix in
\* the original order that starts at the lowest index whose timestamp is
\* >= cutoff (also among equal timestamps) and that always holds the latest
\* bar; for All it returns the full series unchanged.
C19_Window ==
  "load" \in done => IsWindowOf(filteredData, cachedData, timeRange)

\* C19 happens: bars were omitted and two bars of one timestamp sit exactly
\* on the cutoff, both returned
C19_DuplicatesAtCutoff ==
  /\ "load" \in done
  /\ timeRange \notin {"All", "YTD"}
  /\ Len(filteredData) >= 3
  /\ Len(filteredData) < Len(cachedData)
  /\ filteredData[1].timestamp = TokenCutoff(cachedData, timeRange)
  /\ filteredData[2].timestamp = filteredData[1].timestamp

\* C19 happens for year-to-date: the bar of 1 January 00:00 UTC is the first
\* one returned and a bar of the year before is omitted
C19_YearToDate ==
  /\ "load" \in done
  /\ timeRange = "YTD"
  /\ Len(filteredData) < Len(cachedData)
  /\ filteredData # << >>
  /\ filteredData[1].timestamp = DateUTC(2024)

\* C19 happens for All on a series that spans ten years or more, and for a
\* result that came from the cache
C19_AllAndCached ==
  /\ "load" \in done
  /\ loads = MaxLoads
  /\ timeRange = "All"
  /\ timeRange \in DOMAIN cachedRanges
  /\ Len(cachedData) = MaxSeries
  /\ cachedData[1].timestamp <= cachedData[MaxSeries].timestamp - 87600

\* the three selectors have answered for the loaded series and the token
AllSelected == {"load", "worker", "fallback"} \subseteq done

\* C20: for every token of the range set and every sorted series,
\* loadTimeRangeData, the worker's processTimeRangeData and WorkerManager's
\* filterDataByTimeRange return the same sub-sequence.
C20_SelectorsAgree ==
  AllSelected => filteredData = workerData /\ workerData = fallbackData

\* what does hold: the three agree for every token but 10Y, and the binary
\* search of the worker and the linear filter of the fallback agree for
\* every token
C20_AgreeExceptTenYears ==
  AllSelected =>
    /\ workerData = fallbackData
    /\ timeRange # "10Y" => filteredData = workerData

\* for 10Y the worker and the fallback return the window of the last day:
\* a bar of the year before is in the result of loadTimeRangeData only
C20_TenYearsAsLastDay ==
  (AllSelected /\ timeRange = "10Y") =>
    /\ IsWindowOf(filteredData, cachedData, "10Y")
    /\ IsWindowOf(workerData, cachedData, "1D")
    /\ IsWindowOf(fallbackData, cachedData, "1D")

\* the three answers for 10Y on a series that is longer than a day
C20_TenYearsDiffer ==
  /\ AllSelected
  /\ timeRange = "10Y"
  /\ Len(workerData) < Len(filteredData)
  /\ workerData = fallbackData

(***************************************************************************)
(* The indicators with default settings on trending windows: the two       *)
(* 250-bar scenarios (closes linear between 1900 and 2100, high/low =      *)
(* close +/- 1) and windows of DefaultLongEMAPeriod bars and more whose    *)
(* closes move by small and large steps.                                   *)
(***************************************************************************)
MaxTrendTail == 2

ScenarioLen == 250

\* a bar with high/low = close +/- 1
ScenarioBar(c, t) == Bar(c, FAdd(c, Num(1)), FSub(c, Num(1)), c, t)

\* closes rising linearly from 1900 to 2100: 1900 + 200 * i / (n - 1)
LinearRising ==
  [i \in 1..ScenarioLen |->
     ScenarioBar(FAdd(Num(1900), FDiv(Num(200 * (i - 1)), Num(ScenarioLen - 1))), i)]

\* closes falling linearly from 2100 to 1900
LinearFalling ==
  [i \in 1..ScenarioLen |->
     ScenarioBar(FSub(Num(2100), FDiv(Num(200 * (i - 1)), Num(ScenarioLen - 1))), i)]

TrendBaseLen == DefaultLongEMAPeriod - 1

\* the first closes of the monotone windows; from 4096 on one step of 1 is
\* one unit in the last place of MantBits bits
TrendStarts == {100, 4100}

TrendBases ==
  {[i \in 1..TrendBaseLen |-> TrendBar(c + i, i)] : c \in TrendStarts} \cup
  {[i \in 1..TrendBaseLen |-> TrendBar(c + 100 - i, i)] : c \in TrendStarts}

TrendSteps == {-40, -1, 1, 40}

InitTrend ==
  /\ InitSeriesVars
  /\ priceData \in {LinearRising, LinearFalling} \cup TrendBases
  /\ wicks = FALSE
  /\ sslSettings = NoSettings
  /\ sslResult = SslSentinel
  /\ sigResult = NoSignal
  /\ InitOtherVars
  /\ done = {}

AppendTrend ==
  /\ Len(priceData) >= TrendBaseLen
  /\ Len(priceData) < TrendBaseLen + MaxTrendTail
  /\ \E d \in TrendSteps :
       priceData' = Append(priceData,
                           TrendBar(IntOf(priceData[Len(priceData)].close) + d,
                                    Len(priceData) + 1))
  /\ sslResult' = SslSentinel
  /\ tfResult' = TfSentinel
  /\ sigResult' = NoSignal
  /\ done' = {}
  /\ UNCHANGED <<seriesVars, wicks, sslSettings, tfSettings, restVars>>

NextTrend == AppendTrend \/ CallSSL \/ CallTF \/ CallSignal

SpecTrend == InitTrend /\ [][NextTrend]_vars

ClosesRising ==
  \A i \in 1..(Len(priceData) - 1) : FLt(priceData[i].close, priceData[i + 1].close)

ClosesFalling ==
  \A i \in 1..(Len(priceData) - 1) : FGt(priceData[i].close, priceData[i + 1].close)

\* C21: with default settings, the rising 250-bar scenario gives GREEN and
\* an rsiValue above 70; the falling one gives SELL from calculateSSLChannel,
\* RED from calculateTrendFusion and SELL from calculateTradingSignal; and
\* on every window of at least 50 bars with strictly increasing closes the
\* short EMA is above the long EMA (GREEN), with strictly decreasing closes
\* below it (RED).
C21_Trends ==
  /\ ("tf" \in done /\ priceData = LinearRising) =>
       /\ tfResult.trendDirection = "GREEN"
       /\ FGt(tfResult.rsiValue, Num(70))
  /\ ("ssl" \in done /\ priceData = LinearFalling) => sslResult.signal = "SELL"
  /\ ("tf" \in done /\ priceData = LinearFalling) => tfResult.trendDirection = "RED"
  /\ ("sig" \in done /\ priceData = LinearFalling) => sigResult.type = "SELL"
  /\ ("tf" \in done /\ Len(priceData) >= DefaultLongEMAPeriod) =>
       /\ ClosesRising =>
            /\ FGt(tfResult.shortEMA, tfResult.longEMA)
            /\ tfResult.trendDirection = "GREEN"
       /\ ClosesFalling =>
            /\ FLt(tfResult.shortEMA, tfResult.longEMA)
            /\ tfResult.trendDirection = "RED"

\* C21 happens: the three calls were made on the falling scenario, whose
\* closes do fall strictly from 2100 to 1900
C21_FallingScenario ==
  /\ {"ssl", "tf", "sig"} \subseteq done
  /\ priceData = LinearFalling
  /\ ClosesFalling
  /\ priceData[1].close = Num(2100)
  /\ priceData[ScenarioLen].close = Num(1900)
  /\ sigResult.type = "SELL"

\* the rising scenario, with BUY from the three
C21_RisingScenario ==
  /\ {"ssl", "tf", "sig"} \subseteq done
  /\ priceData = LinearRising
  /\ ClosesRising
  /\ priceData[ScenarioLen].close = Num(2100)
  /\ sslResult.signal = "BUY"
  /\ tfResult.rsiValue = Num(100)
  /\ sigResult.type = "BUY"

\* a window of exactly 50 bars rising by one unit in the last place per bar
C21_SmallestSteps ==
  /\ "tf" \in done
  /\ Len(priceData) = DefaultLongEMAPeriod
  /\ ClosesRising
  /\ priceData[1].close = Num(4101)
  /\ priceData[Len(priceData)].close = Num(4150)
  /\ tfResult.trendDirection = "GREEN"

\* a window that is not monotone and runs against its last bars
C21_NotMonotone ==
  /\ "tf" \in done
  /\ Len(priceData) > DefaultLongEMAPeriod
  /\ ~ClosesRising /\ ~ClosesFalling
  /\ FGt(priceData[Len(priceData)].close, priceData[Len(priceData) - 1].close)
  /\ tfResult.trendDirection = "RED"

\* the last bar of the window satisfies neither comparison
LastBarUnresolved ==
  \A ma1 \in {WindowMa1}, ma2 \in {WindowMa2} :
    C3_Compare(priceData[Len(priceData)], ma1, ma2) = 0

\* C22: on a window of more than maPeriod bars whose last bar satisfies
\* neither comparison, the state returned equals the state returned for the
\* window with its last bar removed (an unresolved bar keeps the previous
\* bar's Hlv).
C22_Persistence ==
  ("ssl" \in done /\ Len(priceData) > SslMaPeriod(sslSettings) /\ LastBarUnresolved) =>
    sslResult.hlv = PreviousState

\* the state +1 of the previous call is lost: the last two bars satisfy
\* neither comparison against the averages of the present window
C22_StateLost ==
  /\ "ssl" \in done
  /\ Len(priceData) > SslMaPeriod(sslSettings)
  /\ SslMaPeriod(sslSettings) >= 2
  /\ LastBarUnresolved
  /\ PreviousState = 1
  /\ sslResult.hlv = 0

\* what the code does keep: the comparison of the second-to-last bar against
\* the averages of the present window; with the previous state it agrees in
\* some windows
C22_StateKept ==
  /\ "ssl" \in done
  /\ Len(priceData) > SslMaPeriod(sslSettings)
  /\ LastBarUnresolved
  /\ PreviousState # 0
  /\ sslResult.hlv = PreviousState

(***************************************************************************)
(* CALCULATE_INDICATORS: the indicator calculation of the worker           *)
(* (dataProcessor.worker.ts) and of WorkerManager's main-thread fallback,  *)
(* next to calculateSSLChannel and calculateTrendFusion of strategyLogic   *)
(* with default settings, on the windows around 200 bars.                  *)
(***************************************************************************)
WorkerSslBars == 200
WorkerTrendBars == 50
WorkerShortPeriod == 14
WorkerLongPeriod == 50

\* recentData.reduce((sum, p) => sum + p.high, 0) / recentData.length
WorkerSMA(values) == FDiv(SumRange(values, 1, Len(values), Zero), Num(Len(values)))

\* the comparison of currentPrice with highSMA and lowSMA
WorkerSslSignal(currentPrice, highSMA, lowSMA) ==
  IF FGt(currentPrice, highSMA) THEN "BUY"
  ELSE IF FLt(currentPrice, lowSMA) THEN "SELL"
  ELSE "NEUTRAL"

\* calculateSSLChannel of the worker
workerCalculateSSLChannel(data) ==
  IF Len(data) < WorkerSslBars THEN "NEUTRAL"
  ELSE CHOOSE r \in
         {WorkerSslSignal(data[Len(data)].close, highSMA, lowSMA) :
            highSMA \in {WorkerSMA(Highs(SliceLast(data, WorkerSslBars)))},
            lowSMA \in {WorkerSMA(Lows(SliceLast(data, WorkerSslBars)))}} : TRUE

\* calculateEMA of the worker and of the fallback
WorkerEMA(data, period) ==
  CHOOSE r \in {EmaRange(Closes(data), 2, Len(data), multiplier, data[1].close) :
                multiplier \in {FDiv(Num(2), Num(period + 1))}} : TRUE

\* the comparison of shortEMA with longEMA
WorkerTrendSignal(shortEMA, longEMA) ==
  IF FGt(shortEMA, longEMA) THEN "GREEN"
  ELSE IF FLt(shortEMA, longEMA) THEN "RED"
  ELSE "NEUTRAL"

\* calculateTrendFusion of the worker
workerCalculateTrendFusion(data) ==
  IF Len(data) < WorkerTrendBars THEN "NEUTRAL"
  ELSE CHOOSE r \in
         {WorkerTrendSignal(shortEMA, longEMA) :
            shortEMA \in {WorkerEMA(data, WorkerShortPeriod)},
            longEMA \in {WorkerEMA(data, WorkerLongPeriod)}} : TRUE

\* the answer of the worker to CALCULATE_INDICATORS
WorkerIndicators(data) ==
  [sslSignal |-> workerCalculateSSLChannel(data),
   trendSignal |-> workerCalculateTrendFusion(data)]

\* calculateIndicatorsFallback of WorkerManager: the same two calculations,
\* written out in one function
calculateIndicatorsFallback(data) ==
  [sslSignal |->
     IF Len(data) >= WorkerSslBars
     THEN CHOOSE r \in
            {WorkerSslSignal(data[Len(data)].close, highSMA, lowSMA) :
               highSMA \in {WorkerSMA(Highs(SliceLast(data, WorkerSslBars)))},
               lowSMA \in {WorkerSMA(Lows(SliceLast(data, WorkerSslBars)))}} : TRUE
     ELSE "NEUTRAL",
   trendSignal |->
     IF Len(data) >= WorkerTrendBars
     THEN CHOOSE r \in
            {WorkerTrendSignal(shortEMA, longEMA) :
               shortEMA \in {WorkerEMA(data, WorkerShortPeriod)},
               longEMA \in {WorkerEMA(data, WorkerLongPeriod)}} : TRUE
     ELSE "NEUTRAL"]

\* the worker answers CALCULATE_INDICATORS for the window
CallWorkerIndicators ==
  /\ "worker" \notin done
  /\ workerIndicators' = WorkerIndicators(priceData)
  /\ done' = done \cup {"worker"}
  /\ UNCHANGED <<seriesVars, priceData, wicks, sslSettings, sslResult, sigResult,
                 tfSettings, tfResult, log, rangeVars, loadVars, taskVars,
                 fallbackIndicators>>

\* the fallback answers CALCULATE_INDICATORS for the window
CallFallbackIndicators ==
  /\ "fallback" \notin done
  /\ fallbackIndicators' = calculateIndicatorsFallback(priceData)
  /\ done' = done \cup {"fallback"}
  /\ UNCHANGED <<seriesVars, priceData, wicks, sslSettings, sslResult, sigResult,
                 tfSettings, tfResult, log, rangeVars, loadVars, taskVars,
                 workerIndicators>>

InitWorker ==
  /\ InitSeriesVars
  /\ priceData \in {<< >>, FlatWindow}
  /\ wicks = FALSE
  /\ sslSettings = NoSettings
  /\ sslResult = SslSentinel
  /\ sigResult = NoSignal
  /\ InitOtherVars
  /\ done = {}

\* the window grows by one bar; the answers for the shorter window are dropped
AppendWorkerBar ==
  /\ \/ Len(priceData) < MaxTail
     \/ Len(priceData) >= BaseLen /\ Len(priceData) < BaseLen + MaxTail
  /\ \E c \in TailCloses : priceData' = Append(priceData, TrendBar(c, Len(priceData) + 1))
  /\ sslResult' = SslSentinel
  /\ tfResult' = TfSentinel
  /\ workerIndicators' = NoIndicators
  /\ fallbackIndicators' = NoIndicators
  /\ done' = {}
  /\ UNCHANGED <<seriesVars, wicks, sslSettings, sigResult, tfSettings, log, rangeVars,
                 loadVars, taskVars>>

NextWorker ==
  AppendWorkerBar \/ CallSSL \/ CallTF \/ CallWorkerIndicators \/ CallFallbackIndicators

SpecWorker == InitWorker /\ [][NextWorker]_vars

AllIndicators == {"ssl", "tf", "worker", "fallback"} \subseteq done

\* C24: for every window the worker's answer to CALCULATE_INDICATORS, and
\* the fallback's, carries the sslSignal that calculateSSLChannel(window)
\* reports as signal and the trendSignal that calculateTrendFusion(window)
\* reports as trendDirection, both with default settings.
C24_SameIndicators ==
  AllIndicators =>
    /\ workerIndicators.sslSignal = sslResult.signal
    /\ fallbackIndicators.sslSignal = sslResult.signal
    /\ workerIndicators.trendSignal = tfResult.trendDirection
    /\ fallbackIndicators.trendSignal = tfResult.trendDirection

\* what does hold: the worker and the fallback agree with each other, their
\* trendSignal is the trendDirection of strategyLogic, and their sslSignal
\* is the signal of strategyLogic whenever the last bar of the window
\* satisfies one of the two comparisons
C24_SameButPersistence ==
  AllIndicators =>
    /\ workerIndicators = fallbackIndicators
    /\ workerIndicators.trendSignal = tfResult.trendDirection
    /\ (Len(priceData) < DefaultMaPeriod \/ ~LastBarUnresolved) =>
         workerIndicators.sslSignal = sslResult.signal

\* the disagreement: the last bar satisfies neither comparison, strategyLogic
\* takes BUY from the second-to-last bar, the worker and the fallback report
\* NEUTRAL
C24_WorkerNeutral ==
  /\ AllIndicators
  /\ Len(priceData) >= DefaultMaPeriod
  /\ LastBarUnresolved
  /\ sslResult.signal = "BUY"
  /\ workerIndicators.sslSignal = "NEUTRAL"
  /\ fallbackIndicators.sslSignal = "NEUTRAL"

(***************************************************************************)
(* The data layer of App.tsx: loadDefaultData and its callers               *)
(* (getFullDataRange, loadTimeRangeData, comprehensiveTradingData).  Each   *)
(* action is one run of a caller between two awaits.  cachedData = null is  *)
(* dataLoaded = FALSE; every array, the empty one too, is truthy, so        *)
(* "if (cachedData)" reads dataLoaded.                                      *)
(***************************************************************************)
MaxRequests == 4

\* the series the file may hold
FileData == {<< >>, <<RangeBar(RangeAnchor - Day, 1), RangeBar(RangeAnchor, 2)>>}

\* what the load actions leave alone
loadFrame == <<seriesVars, priceData, wicks, sslSettings, sslResult, sigResult,
               tfSettings, tfResult, log, cachedRanges, timeRange, filteredData,
               workerData, fallbackData, loads, indicatorVars, taskVars, done>>

InitLoad ==
  /\ InitSeriesVars
  /\ priceData = << >>
  /\ wicks = FALSE
  /\ sslSettings = NoSettings
  /\ sslResult = SslSentinel
  /\ sigResult = NoSignal
  /\ tfSettings = NoSettings
  /\ tfResult = TfSentinel
  /\ log = {}
  /\ cachedData = << >>
  /\ cachedRanges = EmptyRanges
  /\ timeRange = "All"
  /\ filteredData = << >>
  /\ workerData = << >>
  /\ fallbackData = << >>
  /\ loads = 0
  /\ InitIndicatorVars
  /\ InitTaskVars
  /\ dataLoaded = FALSE
  /\ isLoading = FALSE
  /\ callers = [c \in Callers |-> IdleCaller]
  /\ loadLog = EmptyLoadLog
  /\ done = {}

Loading(c) == callers[c].pc \in {"fetch", "json", "convert"}

\* the log after one more request
Requested(l) ==
  [l EXCEPT !.requests = @ + 1, !.asked = @ \/ l.failed]

\* mutation of LoadSteps: the loading flag is not looked at
LoadStepsUnguarded(c, loaded, loading) ==
  IF loaded
  THEN /\ callers' = [callers EXCEPT ![c] = [pc |-> "done", result |-> cachedData,
                                             waited |-> FALSE]]
       /\ loadLog' = Requested(loadLog)
       /\ UNCHANGED isLoading
  ELSE /\ callers' = [callers EXCEPT ![c] = [pc |-> "fetch", result |-> << >>,
                                             waited |-> FALSE]]
       /\ isLoading' = TRUE
       /\ loadLog' = [Requested(loadLog) EXCEPT !.fetches = @ + 1]

\* a data request up to its first await: "if (!cachedData) await
\* loadDefaultData()", and in loadDefaultData the return of cachedData, the
\* wait for a load in progress, or the start of the fetch
LoadSteps(c, loaded, loading) ==
  IF loaded
  THEN /\ callers' = [callers EXCEPT ![c] = [pc |-> "done", result |-> cachedData,
                                             waited |-> FALSE]]
       /\ loadLog' = Requested(loadLog)
       /\ UNCHANGED isLoading
  ELSE IF loading
  THEN /\ callers' = [callers EXCEPT ![c] = [pc |-> "wait", result |-> << >>,
                                             waited |-> TRUE]]
       /\ loadLog' = Requested(loadLog)
       /\ UNCHANGED isLoading
  ELSE /\ callers' = [callers EXCEPT ![c] = [pc |-> "fetch", result |-> << >>,
                                             waited |-> FALSE]]
       /\ isLoading' = TRUE
       /\ loadLog' = [Requested(loadLog) EXCEPT !.fetches = @ + 1]

Request ==
  \E c \in Callers :
    /\ callers[c].pc \in {"idle", "done"}
    /\ loadLog.requests < MaxRequests
    /\ LoadSteps(c, dataLoaded, isLoading)
    /\ UNCHANGED <<cachedData, dataLoaded, loadFrame>>

\* the response arrives with an ok status
FetchOk ==
  \E c \in Callers :
    /\ callers[c].pc = "fetch"
    /\ callers' = [callers EXCEPT ![c].pc = "json"]
    /\ UNCHANGED <<cachedData, dataLoaded, isLoading, loadLog, loadFrame>>

\* response.json() gives the array of the file
JsonOk ==
  \E c \in Callers, raw \in FileData :
    /\ callers[c].pc = "json"
    /\ callers' = [callers EXCEPT ![c].pc = "convert", ![c].result = raw]
    /\ UNCHANGED <<cachedData, dataLoaded, isLoading, loadLog, loadFrame>>

\* the conversion loop ends: cachedData = allPriceData, and the finally block
Store ==
  \E c \in Callers :
    /\ callers[c].pc = "convert"
    /\ cachedData' = callers[c].result
    /\ dataLoaded' = TRUE
    /\ isLoading' = FALSE
    /\ callers' = [callers EXCEPT ![c].pc = "done"]
    /\ UNCHANGED <<loadLog, loadFrame>>

\* fetch rejects, the status is not ok or the JSON is invalid: the catch
\* block (cachedData = []) and the finally block
Fail ==
  \E c \in Callers :
    /\ callers[c].pc \in {"fetch", "json"}
    /\ cachedData' = << >>
    /\ dataLoaded' = TRUE
    /\ isLoading' = FALSE
    /\ callers' = [callers EXCEPT ![c].pc = "done", ![c].result = << >>]
    /\ loadLog' = [loadLog EXCEPT !.failed = TRUE]
    /\ UNCHANGED loadFrame

\* a waiting caller wakes up after its 100 ms: it goes on waiting while
\* isLoading, else it returns cachedData || []
Poll ==
  \E c \in Callers :
    /\ callers[c].pc = "wait"
    /\ ~isLoading
    /\ callers' = [callers EXCEPT ![c].pc = "done",
                                  ![c].result = IF dataLoaded THEN cachedData ELSE << >>]
    /\ UNCHANGED <<cachedData, dataLoaded, isLoading, loadLog, loadFrame>>

NextLoad == Request \/ FetchOk \/ JsonOk \/ Store \/ Fail \/ Poll

SpecLoad == InitLoad /\ [][NextLoad]_vars

\* C25: once a load has failed, a later data request attempts the load
\* again (a second fetch is started), so that the empty series is not served
\* for good.
C25_Retry ==
  loadLog.asked => loadLog.fetches >= 2

\* what the code does: after a failed load cachedData is the empty array, no
\* further fetch is started and every later request gets the empty series
C25_EmptyForGood ==
  loadLog.failed =>
    /\ dataLoaded /\ cachedData = << >>
    /\ loadLog.fetches = 1
    /\ ~isLoading
    /\ \A c \in Callers : callers[c].pc = "done" => callers[c].result = << >>

\* requests were made after the failure, all answered with the empty series
C25_AskedInVain ==
  /\ loadLog.failed /\ loadLog.asked
  /\ loadLog.requests = MaxRequests
  /\ \A c \in Callers : callers[c].pc = "done" /\ callers[c].result = << >>

\* C28: under every interleaving of the callers at most one load is in
\* progress, isLoading is true exactly while one is, and a caller that
\* arrived during a load started no fetch of its own and got, once
\* isLoading was false, the series stored by that load.
C28_SingleLoad ==
  /\ Cardinality({c \in Callers : Loading(c)}) <= 1
  /\ isLoading <=> \E c \in Callers : Loading(c)
  /\ isLoading => ~dataLoaded
  /\ loadLog.fetches <= 1
  /\ \A c \in Callers :
       (callers[c].pc = "done" /\ callers[c].waited) =>
         /\ ~isLoading
         /\ dataLoaded
         /\ callers[c].result = cachedData

\* C28 happens: two callers arrived during the load of a third and got the
\* series it stored
C28_WaitedForLoad ==
  /\ loadLog.fetches = 1
  /\ ~loadLog.failed
  /\ cachedData # << >>
  /\ Cardinality({c \in Callers : callers[c].pc = "done" /\ callers[c].waited
                                  /\ callers[c].result = cachedData}) >= 2

\* a failed load: the flag is reset and the waiting caller gets the empty
\* series
C28_WaitedForFailure ==
  /\ loadLog.failed
  /\ ~isLoading
  /\ \E c \in Callers : callers[c].pc = "done" /\ callers[c].waited
                         /\ callers[c].result = << >>

(***************************************************************************)
(* WorkerManager (workerManager.ts) and the message listener of the worker *)
(* (dataProcessor.worker.ts).  Task id n stands for the string "task_n".   *)
(* A promise is settled by the first call of its resolve or reject; later  *)
(* calls leave it as it is.                                                *)
(***************************************************************************)
MaxTasks == 2

\* the series sent with the requests: two bars a day apart
ManagerSeries == <<RangeBar(RangeAnchor - Day, 1), RangeBar(RangeAnchor, 2)>>

\* the three public operations with their arguments: processData(data, "1H"),
\* calculateIndicators(data), filterData(data, fromDate, toDate)
Requests ==
  {[type |-> "PROCESS_DATA", data |-> ManagerSeries, range |-> "1H",
    fromDate |-> 0, toDate |-> 0],
   [type |-> "CALCULATE_INDICATORS", data |-> ManagerSeries, range |-> "",
    fromDate |-> 0, toDate |-> 0],
   [type |-> "FILTER_DATA", data |-> ManagerSeries, range |-> "",
    fromDate |-> RangeAnchor - Day, toDate |-> RangeAnchor - Hour]}

Pending == [state |-> "pending", data |-> << >>, indicators |-> NoIndicators, error |-> ""]

ResolvedData(d) ==
  [state |-> "resolved", data |-> d, indicators |-> NoIndicators, error |-> ""]

ResolvedIndicators(ind) ==
  [state |-> "resolved", data |-> << >>, indicators |-> ind, error |-> ""]

Rejected(message) ==
  [state |-> "rejected", data |-> << >>, indicators |-> NoIndicators, error |-> message]

\* the listener of the worker: the response to one message, as the outcome
\* it gives to the promise it reaches (response.error set: rejected)
WorkerListener(request) ==
  CASE request.type = "PROCESS_DATA" ->
         ResolvedData(processTimeRangeData(request.data, request.range))
    [] request.type = "CALCULATE_INDICATORS" ->
         ResolvedIndicators(WorkerIndicators(request.data))
    [] request.type = "FILTER_DATA" ->
         ResolvedData(SelectSeq(request.data,
                                LAMBDA item : /\ item.timestamp >= request.fromDate
                                              /\ item.timestamp <= request.toDate))
    [] OTHER -> Rejected("Unknown message type")

\* fallbackProcessing(type, data)
fallbackProcessing(request) ==
  CASE request.type = "PROCESS_DATA" ->
         ResolvedData(filterDataByTimeRange(request.data, request.range))
    [] request.type = "CALCULATE_INDICATORS" ->
         ResolvedIndicators(calculateIndicatorsFallback(request.data))
    [] OTHER -> Rejected("Unknown task type")

\* a call of resolve or reject on the promise of a task
Settle(p, outcome) ==
  [p EXCEPT !.outcome = IF @.state = "pending" THEN outcome ELSE @,
            !.calls = @ + 1]

\* the keys of this.tasks without id
WithoutTask(keys, id) == SelectSeq(keys, LAMBDA k : k # id)

TaskIds(keys) == {keys[i] : i \in 1..Len(keys)}

\* mutation of PostedId: the first key of this.tasks
PostedIdFirst(keys) == keys[1]

\* Array.from(this.tasks.keys()).pop()
PostedId(keys) == keys[Len(keys)]

InitManager ==
  /\ InitSeriesVars
  /\ priceData = << >>
  /\ wicks = FALSE
  /\ sslSettings = NoSettings
  /\ sslResult = SslSentinel
  /\ sigResult = NoSignal
  /\ tfSettings = NoSettings
  /\ tfResult = TfSentinel
  /\ log = {}
  /\ InitRangeVars
  /\ InitIndicatorVars
  /\ InitLoadVars
  /\ worker \in BOOLEAN
  /\ tasks = << >>
  /\ taskId = 0
  /\ timers = {}
  /\ inbox = {}
  /\ outbox = {}
  /\ promises = << >>
  /\ fallbacks = {}
  /\ done = {}

managerFrame == <<seriesVars, priceData, wicks, sslSettings, sslResult, sigResult,
                  tfSettings, tfResult, log, rangeVars, indicatorVars, loadVars, done>>

\* sendMessage with a worker: createTask, then postMessage with the last key
SendMessage ==
  \E request \in Requests :
    /\ worker
    /\ taskId < MaxTasks
    /\ taskId' = taskId + 1
    /\ tasks' = Append(tasks, taskId')
    /\ timers' = timers \cup {taskId'}
    /\ promises' = Append(promises, [request |-> request, posted |-> PostedId(tasks'),
                                     outcome |-> Pending, calls |-> 0, answers |-> 0])
    /\ inbox' = inbox \cup {[request |-> request, id |-> PostedId(tasks')]}
    /\ UNCHANGED <<worker, outbox, fallbacks, managerFrame>>

\* sendMessage without a worker: fallbackProcessing (fallbacks holds the
\* latest call and its outcome)
SendFallback ==
  \E request \in Requests :
    /\ ~worker
    /\ fallbacks' = {[request |-> request, outcome |-> fallbackProcessing(request)]}
    /\ UNCHANGED <<worker, tasks, taskId, timers, inbox, outbox, promises, managerFrame>>

\* the worker handles one message and posts its response
WorkerHandle ==
  \E m \in inbox :
    /\ worker
    /\ inbox' = inbox \ {m}
    /\ outbox' = outbox \cup {[id |-> m.id, outcome |-> WorkerListener(m.request)]}
    /\ promises' = [promises EXCEPT ![m.id].answers = @ + 1]
    /\ UNCHANGED <<worker, tasks, taskId, timers, fallbacks, managerFrame>>

\* worker.onmessage: handleWorkerMessage(response)
HandleWorkerMessage ==
  \E response \in outbox :
    /\ worker
    /\ outbox' = outbox \ {response}
    /\ IF response.id \in TaskIds(tasks)
       THEN /\ timers' = timers \ {response.id}
            /\ tasks' = WithoutTask(tasks, response.id)
            /\ promises' = [promises EXCEPT
                              ![response.id] = Settle(@, response.outcome)]
       ELSE UNCHANGED <<timers, tasks, promises>>
    /\ UNCHANGED <<worker, taskId, inbox, fallbacks, managerFrame>>

\* the 30-second timer of task id fires
Timeout(id) ==
  /\ id \in timers
  /\ timers' = timers \ {id}
  /\ tasks' = WithoutTask(tasks, id)
  /\ promises' = [promises EXCEPT ![id] = Settle(@, Rejected("Worker task timeout"))]
  /\ UNCHANGED <<worker, taskId, inbox, outbox, fallbacks, managerFrame>>

SomeTimeout == \E id \in 1..MaxTasks : Timeout(id)

\* worker.onerror: handleWorkerError
WorkerError ==
  /\ worker
  /\ promises' = [i \in 1..Len(promises) |->
                    IF i \in TaskIds(tasks)
                    THEN Settle(promises[i], Rejected("Worker error"))
                    ELSE promises[i]]
  /\ tasks' = << >>
  /\ UNCHANGED <<worker, taskId, timers, inbox, outbox, fallbacks, managerFrame>>

\* mutation of Destroy: the timers of the tasks are cleared with them
DestroyClearingTimers ==
  /\ worker
  /\ worker' = FALSE
  /\ tasks' = << >>
  /\ timers' = {}
  /\ inbox' = {}
  /\ outbox' = {}
  /\ UNCHANGED <<taskId, promises, fallbacks, managerFrame>>

\* destroy(): the worker is terminated with its messages, this.tasks cleared
Destroy ==
  /\ worker
  /\ worker' = FALSE
  /\ tasks' = << >>
  /\ inbox' = {}
  /\ outbox' = {}
  /\ UNCHANGED <<taskId, timers, promises, fallbacks, managerFrame>>

NextManager ==
  \/ SendMessage
  \/ SendFallback
  \/ WorkerHandle
  \/ HandleWorkerMessage
  \/ SomeTimeout
  \/ WorkerError
  \/ Destroy

SpecManager == InitManager /\ [][NextManager]_vars

\* every pending timer fires
FairSpecManager == SpecManager /\ \A id \in 1..MaxTasks : WF_vars(Timeout(id))

\* C23: with worker = null each of processData, calculateIndicators and
\* filterData completes on the main thread and resolves with the result the
\* worker produces for the same arguments.
C23_SameAsWorker ==
  \A f \in fallbacks : f.outcome = WorkerListener(f.request)

\* what does hold: processData and calculateIndicators resolve with the
\* worker's result
C23_SameButFilter ==
  \A f \in fallbacks :
    f.request.type # "FILTER_DATA" =>
      /\ f.outcome.state = "resolved"
      /\ f.outcome = WorkerListener(f.request)

\* filterData without a worker: rejected, where the worker resolves with the
\* bars between the two dates
C23_FilterRejected ==
  \E f \in fallbacks :
    /\ ~worker
    /\ f.request.type = "FILTER_DATA"
    /\ f.outcome.state = "rejected"
    /\ WorkerListener(f.request) = ResolvedData(<<ManagerSeries[1]>>)

\* C27: task ids are unique, the message posted for a request carries the
\* id of the task created for that request, the worker gives at most one
\* response to a message and that response carries the id of the message,
\* and a promise resolved by a response holds the result of its own request.
C27_OwnResponse ==
  /\ Len(promises) = taskId
  /\ \A i, j \in 1..Len(tasks) : i # j => tasks[i] # tasks[j]
  /\ TaskIds(tasks) \subseteq 1..taskId
  /\ \A m \in inbox : m.id \in 1..taskId /\ promises[m.id].answers = 0
  /\ \A response \in outbox :
       /\ response.id \in 1..taskId
       /\ promises[response.id].answers = 1
       /\ response.outcome = WorkerListener(promises[response.id].request)
  /\ \A id \in 1..Len(promises) :
       /\ promises[id].posted = id
       /\ promises[id].answers <= 1
       /\ promises[id].outcome.state = "resolved" =>
            /\ promises[id].answers = 1
            /\ promises[id].outcome = WorkerListener(promises[id].request)

\* two requests of different kinds in flight, the second answered and
\* resolved while the first is still pending
C27_OutOfOrder ==
  /\ Len(promises) = 2
  /\ promises[1].outcome = Pending
  /\ promises[2].outcome.state = "resolved"
  /\ promises[2].calls = 1
  /\ tasks = <<1>>
  /\ promises[1].request.type # promises[2].request.type

\* the first task removed by its timeout before it was answered, the second
\* resolved by its response
C27_AfterRemoval ==
  /\ Len(promises) = 2
  /\ promises[1].outcome = Rejected("Worker task timeout")
  /\ promises[1].answers = 0
  /\ promises[2].outcome = WorkerListener(promises[2].request)
  /\ promises[1].request.type # promises[2].request.type

\* the outcomes open to the promise of a task: the response to its message,
\* the timeout, the worker error event
TaskOutcomes(p) ==
  {WorkerListener(p.request), Rejected("Worker task timeout"), Rejected("Worker error")}

\* C26: every task created while a worker exists is settled in the end,
\* by the response to its message, by its timeout or by a worker error
\* event, under every interleaving of responses, timeouts, worker errors
\* and destroy(); a settled promise keeps its outcome.
C26_SettledOnce ==
  /\ [](\A id \in 1..Len(promises) :
          promises[id].outcome.state # "pending" =>
            promises[id].outcome \in TaskOutcomes(promises[id]))
  /\ [][\A id \in 1..Len(promises) :
          promises[id].outcome.state # "pending" =>
            promises'[id].outcome = promises[id].outcome]_vars
  /\ \A id \in 1..MaxTasks :
       (Len(promises) >= id) ~>
         (Len(promises) >= id /\ promises[id].outcome.state # "pending")

\* a task rejected by a worker error event whose response was delivered and
\* whose timer fired afterwards: reject was called twice, the outcome is
\* that of the first call
C26_LateResponseAndTimeout ==
  \E id \in 1..Len(promises) :
    /\ worker
    /\ promises[id].outcome = Rejected("Worker error")
    /\ promises[id].answers = 1
    /\ \A response \in outbox : response.id # id
    /\ id \notin timers
    /\ promises[id].calls = 2

\* a task left pending by destroy() and rejected by its timer afterwards
C26_TimeoutAfterDestroy ==
  \E id \in 1..Len(promises) :
    /\ ~worker
    /\ promises[id].answers = 0
    /\ promises[id].calls = 1
    /\ promises[id].outcome = Rejected("Worker task timeout")

\* C29: on a window of at least maPeriod bars with low <= high in every
\* bar, SMA or EMA, the average of the highs is at least the average of the
\* lows, so sslUp >= sslDown in states +1 and 0 and sslUp <= sslDown in
\* state -1.
C29_LinesOrdered ==
  ("ssl" \in done /\ Len(priceData) >= SslMaPeriod(sslSettings)) =>
    /\ \A i \in 1..Len(priceData) : FLe(priceData[i].low, priceData[i].high)
    /\ FGe(SslMa1(SliceLast(priceData, SslMaPeriod(sslSettings)), sslSettings),
           SslMa2(SliceLast(priceData, SslMaPeriod(sslSettings)), sslSettings))
    /\ sslResult.hlv \in {0, 1} => FGe(sslResult.sslUp, sslResult.sslDown)
    /\ sslResult.hlv = -1 => FLe(sslResult.sslUp, sslResult.sslDown)

\* C29 happens: an EMA channel over three bars in state -1, sslUp strictly
\* below sslDown
C29_DownChannel ==
  /\ "ssl" \in done
  /\ SslMaType(sslSettings) = "EMA"
  /\ SslMaPeriod(sslSettings) = 3
  /\ Len(priceData) >= 3
  /\ sslResult.hlv = -1
  /\ FLt(sslResult.sslUp, sslResult.sslDown)

\* an SMA channel in state +1, sslUp strictly above sslDown
C29_UpChannel ==
  /\ "ssl" \in done
  /\ SslMaType(sslSettings) = "SMA"
  /\ Len(priceData) >= SslMaPeriod(sslSettings)
  /\ sslResult.hlv = 1
  /\ FGt(sslResult.sslUp, sslResult.sslDown)

\* C30: the 200-bar gate of calculateTradingSignal agrees with the
\* insufficient-data check of the SSL Channel it calls (default settings):
\* on a window that passes the gate neither indicator returns its sentinel
\* and the result is the confluence of calculateSSLChannel(window) and
\* calculateTrendFusion(window) called without settings; a window stopped
\* by the gate is one the SSL Channel answers with its sentinel.
C30_GateAgrees ==
  "sig" \in done =>
    \A sslChannel \in {calculateSSLChannel(priceData, FALSE, NoSettings)} :
      IF Len(priceData) >= SignalMinBars
      THEN \A trendFusion \in {calculateTrendFusion(priceData, NoSettings)} :
             /\ Len(priceData) >= SslMaPeriod(NoSettings)
             /\ sslChannel # SslSentinel
             /\ trendFusion # TfSentinel
             /\ sigResult = SignalResult(priceData, sslChannel, trendFusion)
      ELSE /\ Len(priceData) < SslMaPeriod(NoSettings)
           /\ sslChannel = SslSentinel
           /\ sigResult.type = "NEUTRAL"

\* C30 happens: a window of exactly 200 bars with a BUY or SELL result
C30_FirstWindow ==
  /\ "sig" \in done
  /\ Len(priceData) = SignalMinBars
  /\ sigResult.type \in {"BUY", "SELL"}
  /\ calculateSSLChannel(priceData, FALSE, NoSettings).signal # "NEUTRAL"

\* a window of 199 bars: stopped by the gate, and the SSL Channel answers
\* with its sentinel
C30_LastShortWindow ==
  /\ "sig" \in done
  /\ Len(priceData) = SignalMinBars - 1
  /\ calculateSSLChannel(priceData, FALSE, NoSettings) = SslSentinel
  /\ calculateTrendFusion(priceData, NoSettings) # TfSentinel

====
